---- MODULE Spec2Model ----
(***************************************************************************)
(* The screenmcp worker relay: the per-device command queue of the         *)
(* in-memory StateBackend (worker/src/backend/file_state.rs), the phone    *)
(* registry (worker/src/connections.rs) and the phone and controller       *)
(* session handlers (worker/src/ws.rs).                                    *)
(*                                                                         *)
(* Every await of a handler is one step: tasks run on a multi-threaded     *)
(* executor, so any other task may run between two awaits of one task.     *)
(* A call of the state backend is atomic: each takes the RwLock of the     *)
(* devices map for its whole body.                                         *)
(***************************************************************************)
EXTENDS Integers, Sequences, FiniteSets, TLC

\* ------------------------------------------------------------------ bounds

\* Commands the controllers issue in a run of the relay.
MaxCmds == 2
\* Largest id a phone puts in an ack, a response or its declared last_ack.
MaxAck == 1
\* Calls of enqueue_command in a run of the backend alone.
MaxEnqueue == 6

\* mpsc::channel(64) of register_phone.
ChannelCapacity == 64

\* broadcast::channel(256) of Connections::new.
ResponseCapacity == 256

\* mpsc::channel(64) of register_sse.
SseChannelCapacity == 64

Devices == {"d1"}
\* Phone sessions, named in the order in which they reach register_phone.
SessionOrder == <<"p1", "p2">>
Sessions == {SessionOrder[i] : i \in 1 .. Len(SessionOrder)}
Controllers == {"c1", "c2"}
\* The controller sessions in the order in which they registered.
ControllerOrder == <<"c1", "c2">>
CmdNames == {"screenshot"}
\* GET /events requests, named in the order in which they reach register_sse.
SseOrder == <<"k1", "k2">>
SseSessions == {SseOrder[i] : i \in 1 .. Len(SseOrder)}

\* Ids a phone may send: the frame carries an i64 the worker does not check.
AckIds == 0 .. MaxAck
BackendAckIds == (0 - 1) .. (MaxEnqueue + 1)

VARIABLES
    devices,      \* FileState.devices: device_id -> DeviceState, a partial map
    phones,       \* Connections.phones: device_id -> the registered sender
    chan,         \* per phone session: the content of its mpsc channel
    ph_pc,        \* per phone session: where handle_phone_connection stands
    ph_dev,       \* per phone session: device_id of the auth frame
    ph_last_ack,  \* per phone session: last_ack of the auth frame
    ph_resume,    \* per phone session: resume_from (max of client and server ack)
    ph_commands,  \* per phone session: the replay list still to be sent
    ws_tx,        \* per phone session: the frames written to its WebSocket while it is served
    ct_pc,        \* per controller: where the command arm of its loop stands
    ct_cmd,       \* per controller: the Command enqueue_command returned (and, as
                  \* history, whether an ack at or above its id was processed since)
    assigned,     \* history: per device, the ids enqueue_command returned, in call order
    placed,       \* history: per device, the ids put on a phone's outbound channel
    offline,      \* history: per device, the ids whose send_to_phone returned false,
                  \* less those at or below an ack processed since their enqueue
    replayed,     \* history: per phone session, what get_pending_commands returned to it
    call,         \* history: the last call of the state backend
    sse_clients,  \* Connections.sse_clients: device_id -> the registered SSE sender
    sse_pc,       \* per GET /events request: where handle_sse stands
    sse_dev,      \* per GET /events request: device_id of the query
    sse_chan,     \* per GET /events request: the content of its mpsc channel
    notify,       \* history: the last POST /notify and its answer
    controllers,  \* Connections.controllers: device_id -> the senders registered, in order
    event_rx,     \* controller -> the events unread on its event channel
    response_rx,  \* the broadcast receivers that are followed: controller -> responses unread
    au_pc,        \* handle_connection: where each connection is in the admission
    au_msg,       \* the auth frame of each connection (and whether its IP is whitelisted)
    au_out,       \* the frames handle_connection itself wrote to each connection
    au_seen,      \* the frames each connection sent before its auth frame
    versions,     \* Connections.versions: device_id -> the version stored
    hb_now,       \* the clock, in seconds since the followed sessions entered their loops
    hb_last_pong, \* last_pong of each controller session
    hb_next_tick, \* when the heartbeat interval of each controller session ticks next
    hb_pong,      \* a pong of the peer waits in the socket of the session
    hb_quiet,     \* the peer of the session has stopped answering pings
    hb_end,       \* why the loop of the session was left
    pure_call,    \* history: the last call of a function that is checked by itself
    responses,    \* FileState.responses: "device:id" -> stored response
    refused,      \* history: the last frame a running session did not act on
    redis,        \* the Redis keys of a device: cmd_counter, last_ack, pending
    rd_task,      \* a call of State in progress: where it is, what it holds
    au_target,    \* per connection: target_device_id of its auth frame, "none" without one
    ct_sock,      \* per followed controller session: its local phone_connected and
                  \* the frames written to its socket, in order
    sdk,          \* the Rust SDK client: SharedState, the client's fields, its tasks
    sdk_ws,       \* the SDK client's socket and the worker session behind it
    mac           \* the desktop agent's run_ws_manager: its channels and tasks

\* The push-event side channel (GET /events, POST /notify).
sseVars == <<sse_clients, sse_pc, sse_dev, sse_chan, notify>>

\* The controller registry and the response broadcast.
busVars == <<controllers, response_rx, event_rx>>

\* The admission of a connection.
gateVars == <<au_pc, au_msg, au_out, au_seen>>

\* The heartbeat of the controller sessions.
hbVars == <<hb_now, hb_last_pong, hb_next_tick, hb_pong, hb_quiet, hb_end>>

\* What only the specifications of single features change.
clientVars == <<sdk, sdk_ws, mac>>
otherVars == <<pure_call, refused, redis, rd_task, clientVars>>
restVars == <<au_target, ct_sock>>
moreVars == <<otherVars, responses, restVars>>

\* What the command relay leaves alone.
sideVars == <<sseVars, moreVars, busVars, gateVars, versions, hbVars>>

coreVars == <<devices, phones, chan, ph_pc, ph_dev, ph_last_ack, ph_resume, ph_commands,
              ws_tx, ct_pc, ct_cmd, assigned, placed, offline, replayed, call>>

vars == <<coreVars, sideVars>>

\* What the push-event channel leaves alone.
nonSseVars == <<coreVars, moreVars, busVars, gateVars, versions, hbVars>>

relayVars == <<phones, chan, ph_pc, ph_dev, ph_last_ack, ph_resume, ph_commands,
               ws_tx, ct_pc, ct_cmd, placed, offline, replayed, sideVars>>

\* ----------------------------------------------------------------- helpers

Max(a, b) == IF a >= b THEN a ELSE b

\* HashMap::insert / entry().or_insert on a partial map.
MapPut(m, k, v) == [x \in (DOMAIN m) \cup {k} |-> IF x = k THEN v ELSE m[x]]

\* HashMap::remove.
MapRemove(m, k) == [x \in (DOMAIN m) \ {k} |-> m[x]]

EmptyMap == [x \in {} |-> 0]

Ids(cmds) == {cmds[i].id : i \in 1 .. Len(cmds)}

IdSeq(cmds) == [i \in 1 .. Len(cmds) |-> cmds[i].id]

StrictlyAscending(s) == \A i \in 1 .. Len(s) - 1 : s[i] < s[i + 1]

\* ------------------------------------------------------ FileState (backend)

\* DeviceState::new
DeviceState_new == [pending |-> <<>>, last_ack |-> 0, cmd_counter |-> 0]

\* FileState::register_connection: entry(device_id).or_insert_with(new)
register_connection(devs, d) ==
    IF d \in DOMAIN devs THEN devs ELSE MapPut(devs, d, DeviceState_new)

\* An unregister_connection that forgets the device.
unregister_connection_removes(devs, d) == [x \in (DOMAIN devs) \ {d} |-> devs[x]]

\* FileState::unregister_connection: keeps the device state
unregister_connection(devs, d) == devs

\* FileState::get_last_ack: 0 for an unknown device
get_last_ack(devs, d) == IF d \in DOMAIN devs THEN devs[d].last_ack ELSE 0

\* A process_ack that keeps the entry with the acked id (retain on >=).
process_ack_keeps_acked(devs, d, ack_id) ==
    IF d \in DOMAIN devs
    THEN [devs EXCEPT ![d].last_ack = ack_id,
                      ![d].pending = SelectSeq(devs[d].pending, LAMBDA c : c.id >= ack_id)]
    ELSE devs

\* A process_ack that filters pending by the watermark it found, not by ack_id.
process_ack_stale(devs, d, ack_id) ==
    IF d \in DOMAIN devs
    THEN [devs EXCEPT ![d].last_ack = ack_id,
                      ![d].pending = SelectSeq(devs[d].pending,
                                               LAMBDA c : c.id > devs[d].last_ack)]
    ELSE devs

\* FileState::process_ack: last_ack = ack_id; pending.retain(|c| c.id > ack_id);
\* nothing for an unknown device.
process_ack(devs, d, ack_id) ==
    IF d \in DOMAIN devs
    THEN [devs EXCEPT ![d].last_ack = ack_id,
                      ![d].pending = SelectSeq(devs[d].pending, LAMBDA c : c.id > ack_id)]
    ELSE devs

\* A get_pending_commands that takes since_ack as the first id to replay (>=).
get_pending_commands_from(devs, d, since_ack) ==
    IF d \in DOMAIN devs
    THEN SelectSeq(devs[d].pending, LAMBDA c : c.id >= since_ack)
    ELSE <<>>

\* A get_pending_commands that replays the head of the queue only.
get_pending_commands_first(devs, d, since_ack) ==
    IF d \in DOMAIN devs
    THEN LET all == SelectSeq(devs[d].pending, LAMBDA c : c.id > since_ack)
         IN IF all = <<>> THEN <<>> ELSE <<Head(all)>>
    ELSE <<>>

\* FileState::get_pending_commands: the entries of pending with id > since_ack,
\* in the order of pending; empty for an unknown device.
get_pending_commands(devs, d, since_ack) ==
    IF d \in DOMAIN devs
    THEN SelectSeq(devs[d].pending, LAMBDA c : c.id > since_ack)
    ELSE <<>>

\* The queue length from which enqueue_command logs a warning.
MaxPendingWarn == 50

\* An enqueue_command that takes the id and does not push at the length it warns at.
enqueue_command_capped(devs, d, cmd) ==
    LET known == register_connection(devs, d)
        id == known[d].cmd_counter + 1
        command == [id |-> id, cmd |-> cmd]
        warned == Len(known[d].pending) >= MaxPendingWarn
    IN [devices |-> [known EXCEPT ![d].cmd_counter = id,
                                  ![d].pending = IF warned THEN @ ELSE Append(@, command)],
        command |-> command, warned |-> warned]

\* An enqueue_command that reads the counter and does not store the increment.
enqueue_command_lost_update(devs, d, cmd) ==
    LET known == register_connection(devs, d)
        id == known[d].cmd_counter + 1
        command == [id |-> id, cmd |-> cmd]
    IN [devices |-> [known EXCEPT ![d].pending = Append(known[d].pending, command)],
        command |-> command, warned |-> Len(known[d].pending) >= MaxPendingWarn]

\* FileState::enqueue_command: id = cmd_counter.fetch_add(1) + 1, warn at a
\* length of 50 or more, push to pending. Returns the new map, the Command and
\* whether the warning was logged.
enqueue_command(devs, d, cmd) ==
    LET known == register_connection(devs, d)
        id == known[d].cmd_counter + 1
        command == [id |-> id, cmd |-> cmd]
    IN [devices |-> [known EXCEPT ![d].cmd_counter = id,
                                  ![d].pending = Append(known[d].pending, command)],
        command |-> command, warned |-> Len(known[d].pending) >= MaxPendingWarn]

\* Stored responses expire after this many seconds.
ResponseTtl == 300

\* FileState::store_response: drop the entries of age ResponseTtl or more, then
\* insert under "{device_id}:{cmd_id}" with created = now.
store_response(resps, d, cmd_id, now) ==
    LET fresh == {k \in DOMAIN resps : now - resps[k].created < ResponseTtl}
        kept == [k \in fresh |-> resps[k]]
    IN MapPut(kept, <<d, cmd_id>>, [json |-> "response", created |-> now])

\* The fields of a device as a caller sees them (an unknown device reads as new).
pending(d) == IF d \in DOMAIN devices THEN devices[d].pending ELSE <<>>
last_ack(d) == get_last_ack(devices, d)
cmd_counter(d) == IF d \in DOMAIN devices THEN devices[d].cmd_counter ELSE 0

\* A call of the backend: its device and argument, what it returned, and the
\* pending queue it found.
Call(op, d, arg, ret) == [op |-> op, dev |-> d, arg |-> arg, ret |-> ret, before |-> pending(d)]
NoCall == [op |-> "none", dev |-> "", arg |-> 0, ret |-> <<>>, before |-> <<>>]

\* ------------------------------------------------- the backend on its own

NoNotify == [dev |-> "", status |-> 0, registered |-> FALSE, room |-> FALSE, queued |-> FALSE]

\* No GET /events request has arrived yet.
InitSse ==
    /\ sse_clients = EmptyMap
    /\ sse_pc = [k \in SseSessions |-> "new"]
    /\ sse_dev = [k \in SseSessions |-> "d1"]
    /\ sse_chan = [k \in SseSessions |-> <<>>]
    /\ notify = NoNotify

\* worker.toml: [user].id, [auth].api_keys, [devices].allowed (device ids are
\* written without dashes).
UserId == "u1"
ApiKeys == {"pk1"}
Allowed == {"d1", "d2"}

\* A connection takes the role its auth frame names: the phone sessions send
\* role "phone", the controller sessions role "controller".
Conns == Sessions \cup Controllers
RoleOf(x) == IF x \in Controllers THEN "controller" ELSE "phone"

NoAuth == [role |-> "", user_id |-> "none", key |-> "none", device_id |-> "none",
           version |-> "none", ip_allowed |-> FALSE]

\* An auth frame that passes every check.
GoodAuth(x) ==
    [role |-> RoleOf(x),
     user_id |-> IF RoleOf(x) = "phone" THEN UserId ELSE "none",
     key |-> IF RoleOf(x) = "controller" THEN "pk1" ELSE "none",
     device_id |-> "d1", version |-> "none", ip_allowed |-> TRUE]

\* Every connection was admitted with a good auth frame.
InitGate ==
    /\ au_pc = [x \in Conns |-> "admitted"]
    /\ au_msg = [x \in Conns |-> GoodAuth(x)]
    /\ au_out = [x \in Conns |-> {}]
    /\ au_seen = [x \in Conns |-> 0]
    /\ versions = EmptyMap

NoPure == [op |-> "none", args |-> <<>>, ret |-> FALSE]

\* No function was called by itself.
NoRefusal == [conn |-> "", why |-> "", wrote |-> <<>>]

\* The tasks that call State: the handlers of the controllers and of the phone.
RedisTasks == Controllers \cup {"p1"}

\* A key that is not set reads as nil (None), a key that is set as Some(v).
RedisNil == <<>>
RedisSome(v) == <<v>>
RedisIdle == [pc |-> "idle", id |-> 0, ack |-> 0, commands |-> <<>>]

\* ScreenMCPClient::new: nothing is pending, no task runs, connect_ws was not
\* called. pending maps a key to the send_command call that holds the receiver.
SdkNew ==
    [pending |-> EmptyMap, last_temp_id |-> 0, temp_id_counter |-> 0,
     connected |-> FALSE, auth_result |-> "None", permit |-> FALSE,
     connect_ws |-> "idle", recv_task |-> "none",
     call |-> 0, call_temp_id |-> 0, calls |-> 0, returned |-> <<>>]

\* The socket of the client before it is opened, and the worker session behind
\* it: owner[id] is the send_command call whose command got the id.
SdkSocketNew ==
    [to_worker |-> <<>>, from_worker |-> <<>>, stage |-> "handshake",
     owner |-> <<>>, unanswered |-> {}]

\* run_ws_manager before its loop: no connection task, both channels empty.
\* timers counts the tasks schedule_reconnect spawned that still sleep. History:
\* sent counts the requests of the tray and the SSE listener, quiet says that
\* a Disconnect was handled and no request of the tray or the SSE listener for
\* a connection was sent or handled since.
MacNew ==
    [connection_task |-> "none", runs |-> "", cmd_rx |-> <<>>, internal_rx |-> <<>>,
     timers |-> 0, sent |-> 0, quiet |-> FALSE]

InitMore ==
    /\ pure_call = NoPure
    /\ refused = NoRefusal
    /\ redis = [cmd_counter |-> RedisNil, last_ack |-> RedisNil, pending |-> RedisNil]
    /\ rd_task = [t \in RedisTasks |-> RedisIdle]
    /\ responses = EmptyMap
    /\ au_target = [x \in Conns |-> "none"]
    /\ ct_sock = EmptyMap
    /\ sdk = SdkNew
    /\ sdk_ws = SdkSocketNew
    /\ mac = MacNew

\* The loops of the controller sessions start: the interval ticks at once,
\* last_pong is now.
InitHb ==
    /\ hb_now = 0
    /\ hb_last_pong = [c \in Controllers |-> 0]
    /\ hb_next_tick = [c \in Controllers |-> 0]
    /\ hb_pong = [c \in Controllers |-> FALSE]
    /\ hb_quiet = [c \in Controllers |-> FALSE]
    /\ hb_end = [c \in Controllers |-> ""]

\* The controllers are in their loops: registered for their target; their
\* broadcast receivers are not followed.
InitBus ==
    /\ controllers = [d \in Devices |-> ControllerOrder]
    /\ response_rx = EmptyMap
    /\ event_rx = EmptyMap

InitRelayIdle ==
    /\ InitSse
    /\ InitBus
    /\ InitGate
    /\ InitHb
    /\ InitMore
    /\ phones = EmptyMap
    /\ chan = [s \in Sessions |-> <<>>]
    /\ ph_pc = [s \in Sessions |-> "init"]
    /\ ph_dev = [s \in Sessions |-> "d1"]
    /\ ph_last_ack = [s \in Sessions |-> 0]
    /\ ph_resume = [s \in Sessions |-> 0]
    /\ ph_commands = [s \in Sessions |-> <<>>]
    /\ ws_tx = [s \in Sessions |-> <<>>]
    /\ ct_pc = [c \in Controllers |-> "loop"]
    /\ ct_cmd = [c \in Controllers |-> [dev |-> "", command |-> [id |-> 0, cmd |-> ""], acked |-> FALSE]]
    /\ placed = [d \in Devices |-> <<>>]
    /\ offline = [d \in Devices |-> {}]
    /\ replayed = [s \in Sessions |-> <<>>]

InitBackend ==
    /\ devices = EmptyMap
    /\ assigned = [d \in Devices |-> <<>>]
    /\ call = NoCall
    /\ InitRelayIdle

ApiRegister(d) ==
    /\ devices' = register_connection(devices, d)
    /\ call' = Call("register_connection", d, 0, <<>>)
    /\ UNCHANGED <<assigned, relayVars>>

ApiEnqueueUpTo(d, cmd, n) ==
    /\ cmd_counter(d) < n
    /\ LET r == enqueue_command(devices, d, cmd)
       IN /\ devices' = r.devices
          /\ assigned' = [assigned EXCEPT ![d] = Append(@, r.command.id)]
          /\ call' = Call("enqueue_command", d, 0, <<r.command>>)
    /\ UNCHANGED relayVars

ApiEnqueue(d, cmd) == ApiEnqueueUpTo(d, cmd, MaxEnqueue)

ApiAck(d, ack_id) ==
    /\ devices' = process_ack(devices, d, ack_id)
    /\ call' = Call("process_ack", d, ack_id, <<>>)
    /\ UNCHANGED <<assigned, relayVars>>

ApiGetPending(d, since_ack) ==
    /\ call' = Call("get_pending_commands", d, since_ack,
                  get_pending_commands(devices, d, since_ack))
    /\ UNCHANGED <<devices, assigned, relayVars>>

ApiUnregister(d) ==
    /\ devices' = unregister_connection(devices, d)
    /\ call' = Call("unregister_connection", d, 0, <<>>)
    /\ UNCHANGED <<assigned, relayVars>>

ApiGetLastAck(d) ==
    /\ call' = Call("get_last_ack", d, 0, <<get_last_ack(devices, d)>>)
    /\ UNCHANGED <<devices, assigned, relayVars>>

ApiStoreResponse(d, cmd_id) ==
    /\ responses' = store_response(responses, d, cmd_id, hb_now)
    /\ call' = Call("store_response", d, cmd_id, <<>>)
    /\ UNCHANGED <<devices, assigned, phones, chan, ph_pc, ph_dev, ph_last_ack, ph_resume,
                   ph_commands, ws_tx, ct_pc, ct_cmd, placed, offline, replayed, sseVars,
                   otherVars, restVars, busVars, gateVars, versions, hbVars>>

\* The furthest the clock of the backend is followed.
MaxClock == 300

\* Time passes between two calls, half a lifetime of a stored response at once.
ApiTime ==
    /\ hb_now + ResponseTtl \div 2 <= MaxClock
    /\ hb_now' = hb_now + ResponseTtl \div 2
    /\ UNCHANGED <<coreVars, sseVars, moreVars, busVars, gateVars, versions, hb_last_pong,
                   hb_next_tick, hb_pong, hb_quiet, hb_end>>

NextBackend ==
    \/ \E d \in Devices : ApiRegister(d)
    \/ \E d \in Devices, cmd \in CmdNames : ApiEnqueue(d, cmd)
    \/ \E d \in Devices, a \in BackendAckIds : ApiAck(d, a)
    \/ \E d \in Devices, a \in BackendAckIds : ApiGetPending(d, a)

SpecBackend == InitBackend /\ [][NextBackend]_vars

\* Every call of the trait, with time passing between the calls.
NextCalls ==
    \/ \E d \in Devices : ApiRegister(d)
    \/ \E d \in Devices : ApiUnregister(d)
    \/ \E d \in Devices : ApiGetLastAck(d)
    \/ \E d \in Devices, cmd \in CmdNames : ApiEnqueueUpTo(d, cmd, MaxCmds)
    \/ \E d \in Devices, a \in AckIds : ApiAck(d, a)
    \/ \E d \in Devices, a \in AckIds : ApiGetPending(d, a)
    \/ \E d \in Devices, id \in AckIds : ApiStoreResponse(d, id)
    \/ ApiTime

SpecCalls == InitBackend /\ [][NextCalls]_vars

\* The longest queue that is built.
MaxQueue == 52

\* Commands pile up for a device whose phone acks little or nothing.
NextQueue ==
    \/ \E d \in Devices : ApiRegister(d)
    \/ \E d \in Devices, cmd \in CmdNames : ApiEnqueueUpTo(d, cmd, MaxQueue)
    \/ \E d \in Devices, a \in AckIds : ApiAck(d, a)

SpecQueue == InitBackend /\ [][NextQueue]_vars

\* ------------------------------------------------------------ the registry

\* The receiver of a session's channel lives from register_phone until
\* handle_phone_connection returns.
ReceiverAlive(s) == ph_pc[s] \notin {"init", "done"}

\* The tasks that hold phones.read() across an await: send_to_phone keeps its
\* read guard while tx.send(..).await waits for room in a full channel.
PhonesReaders == {c \in Controllers : ct_pc[c] = "sending"}

\* phones.write().await is granted when no read guard is held.
PhonesWritable == PhonesReaders = {}

\* Connections::register_phone: phones.insert(device_id, tx) with a fresh
\* channel; the sender it replaces is dropped.
register_phone(d, s) == MapPut(phones, d, s)

\* Connections::unregister_phone: phones.remove(device_id), whoever registered it.
unregister_phone(d) == MapRemove(phones, d)

\* Connections::is_phone_connected
is_phone_connected(d) == d \in DOMAIN phones

\* Connections::send_to_phone: with a sender registered and its receiver alive
\* the message is put on the channel and the result is true; with no sender, or
\* the receiver dropped, the result is false. (A full channel makes the caller
\* wait: see CtlSendWait and the guard of CtlSendToPhone.)
send_to_phone(d, message) ==
    IF d \in DOMAIN phones /\ ReceiverAlive(phones[d])
    THEN [sent |-> TRUE, chan |-> [chan EXCEPT ![phones[d]] = Append(@, message)]]
    ELSE [sent |-> FALSE, chan |-> chan]

\* Connections::register_controller: controllers.entry(device_id).or_default().push(tx)
register_controller(d, c) ==
    MapPut(controllers, d, Append(IF d \in DOMAIN controllers THEN controllers[d] ELSE <<>>, c))

\* The capacity of a controller's event channel.
EventCapacity == 64

\* The controllers registered for a device whose event receiver is followed and
\* has not been dropped.
EventReceivers(d) ==
    {c \in DOMAIN event_rx :
        /\ ct_pc[c] \notin {"connecting", "done"}
        /\ d \in DOMAIN controllers
        /\ \E i \in 1 .. Len(controllers[d]) : controllers[d][i] = c}

\* tx.send(msg).await returns for every sender: no event channel is full.
EventRoom(d) == \A c \in EventReceivers(d) : Len(event_rx[c]) < EventCapacity

\* An emission of phone_status that goes to the senders of every device.
notify_controllers_all(d, connected) ==
    [c \in DOMAIN event_rx |->
        IF ct_pc[c] \notin {"connecting", "done"}
        THEN Append(event_rx[c], [type |-> "phone_status", connected |-> connected, dev |-> d])
        ELSE event_rx[c]]

\* Connections::notify_controllers: the event is sent to every sender registered
\* for the device (a send to a dropped receiver fails and is not looked at).
\* `dev` is not in the JSON: it records the device the event is about.
notify_controllers(d, connected) ==
    [c \in DOMAIN event_rx |->
        IF c \in EventReceivers(d)
        THEN Append(event_rx[c], [type |-> "phone_status", connected |-> connected, dev |-> d])
        ELSE event_rx[c]]

\* Connections::subscribe_responses: a new receiver, with nothing unread.
subscribe_responses(c) == MapPut(response_rx, c, <<>>)

\* A notify_response that reaches the first subscriber only.
notify_response_first(d, cmd_id) ==
    [c \in DOMAIN response_rx |->
        IF \A c2 \in DOMAIN response_rx : c2 = c \/ ~(\E i, j \in 1 .. Len(ControllerOrder) :
                                                      ControllerOrder[i] = c2 /\ ControllerOrder[j] = c /\ i < j)
        THEN Append(response_rx[c], [dev |-> d, id |-> cmd_id])
        ELSE response_rx[c]]

\* Connections::notify_response: response_tx.send((device_id, cmd_id, json)) on
\* the broadcast channel: every receiver has the message to read; a receiver
\* with ResponseCapacity messages unread loses the oldest of them.
notify_response(d, cmd_id) ==
    [c \in DOMAIN response_rx |->
        IF Len(response_rx[c]) < ResponseCapacity
        THEN Append(response_rx[c], [dev |-> d, id |-> cmd_id])
        ELSE Append(Tail(response_rx[c]), [dev |-> d, id |-> cmd_id])]

\* ws.rs 253-256: the device_id of the auth frame, the verified user's id when
\* the frame has none
device_id(m) == IF m.device_id \in {"none", ""} THEN UserId ELSE m.device_id

\* ws.rs 310: target_device_id of a controller session: the field of its auth
\* frame, the connection's own device_id when the frame has none
Target(c) == IF au_target[c] = "none" THEN device_id(au_msg[c]) ELSE au_target[c]

\* ws_tx.send(frame) of a controller session returned Ok: the frame is on the
\* socket (recorded for the sessions that are followed).
Written(c, frame) ==
    IF c \in DOMAIN ct_sock THEN [ct_sock EXCEPT ![c].out = Append(@, frame)] ELSE ct_sock

\* ServerMessage::auth_ok_controller, the phone_status event of
\* notify_controllers, the phone's response as relayed, ServerMessage::cmd_accepted.
\* `dev` is on no wire: it records the device a status or a response is about.
AuthOkControllerFrame(phone_connected) ==
    [type |-> "auth_ok", id |-> 0, connected |-> phone_connected, dev |-> ""]
StatusFrame(connected, d) == [type |-> "phone_status", id |-> 0, connected |-> connected, dev |-> d]
ResponseFrame(id, d) == [type |-> "response", id |-> id, connected |-> FALSE, dev |-> d]
CmdAcceptedFrame(id) == [type |-> "cmd_accepted", id |-> id, connected |-> FALSE, dev |-> ""]

\* Connections::set_version, remove_version
set_version(d, v) == MapPut(versions, d, v)
remove_version(d) == MapRemove(versions, d)

\* protocol.rs check_version_compatible: the major version of a known
\* component is within the supported range
check_version_compatible(v) == v # "old"

\* ServerMessage::auth_ok / a Command frame, as written to the phone's socket.
AuthOkFrame(resume_from) == [type |-> "auth_ok", id |-> resume_from, cmd |-> ""]
CommandFrame(c) == [type |-> "command", id |-> c.id, cmd |-> c.cmd]

\* The command ids written to a session's socket, in order.
SentIds(s) ==
    LET f == SelectSeq(ws_tx[s], LAMBDA m : m.type = "command")
    IN [i \in 1 .. Len(f) |-> f[i].id]

\* ------------------------------------------------ handle_phone_connection

\* The handler stops serving its socket (a failed send, Close, a socket error
\* or a heartbeat timeout): what is left is the cleanup at `next`. The locals
\* the cleanup does not read, and the record of the socket, end here.
Leave(s, next) ==
    /\ ph_pc' = [ph_pc EXCEPT ![s] = next]
    /\ ph_last_ack' = [ph_last_ack EXCEPT ![s] = 0]
    /\ ph_resume' = [ph_resume EXCEPT ![s] = 0]
    /\ ph_commands' = [ph_commands EXCEPT ![s] = <<>>]
    /\ ws_tx' = [ws_tx EXCEPT ![s] = <<>>]
    /\ replayed' = [replayed EXCEPT ![s] = <<>>]

\* ws.rs 344: register_phone
PhoneRegister(s, d, la) ==
    /\ ph_pc[s] = "init"
    /\ au_pc[s] = "admitted"
    /\ d = device_id(au_msg[s])
    /\ PhonesWritable
    /\ \A i \in 1 .. Len(SessionOrder) :
          SessionOrder[i] = s => \A j \in 1 .. i - 1 : ph_pc[SessionOrder[j]] # "init"
    /\ EventRoom(d)
    /\ phones' = register_phone(d, s)
    /\ event_rx' = notify_controllers(d, TRUE)
    /\ chan' = [chan EXCEPT ![s] = <<>>]
    /\ ph_dev' = [ph_dev EXCEPT ![s] = d]
    /\ ph_last_ack' = [ph_last_ack EXCEPT ![s] = la]
    /\ ph_pc' = [ph_pc EXCEPT ![s] = "registered"]
    /\ UNCHANGED <<devices, ph_resume, ph_commands, ws_tx, ct_pc, ct_cmd,
                   assigned, placed, offline, replayed, call,
                   sseVars, moreVars, controllers, response_rx, gateVars, versions, hbVars>>

\* ws.rs 347: state.register_connection
PhoneRegisterState(s) ==
    /\ ph_pc[s] = "registered"
    /\ devices' = register_connection(devices, ph_dev[s])
    /\ ph_pc' = [ph_pc EXCEPT ![s] = "state_registered"]
    /\ UNCHANGED <<phones, chan, ph_dev, ph_last_ack, ph_resume, ph_commands, ws_tx,
                   ct_pc, ct_cmd, assigned, placed, offline, replayed, call, sideVars>>

\* ws.rs 352-353: server_ack = get_last_ack; resume_from = last_ack.max(server_ack)
PhoneGetLastAck(s) ==
    /\ ph_pc[s] = "state_registered"
    /\ ph_resume' = [ph_resume EXCEPT
                       ![s] = Max(ph_last_ack[s], get_last_ack(devices, ph_dev[s]))]
    /\ ph_pc' = [ph_pc EXCEPT ![s] = "resume"]
    /\ UNCHANGED <<devices, phones, chan, ph_dev, ph_last_ack, ph_commands, ws_tx,
                   ct_pc, ct_cmd, assigned, placed, offline, replayed, call, sideVars>>

\* ws.rs 354-359: send auth_ok; a failed send unregisters and returns
PhoneSendAuthOk(s, ok) ==
    /\ ph_pc[s] = "resume"
    /\ IF ok
       THEN /\ ws_tx' = [ws_tx EXCEPT ![s] = Append(@, AuthOkFrame(ph_resume[s]))]
            /\ ph_resume' = [ph_resume EXCEPT ![s] = 0]
            /\ ph_pc' = [ph_pc EXCEPT ![s] = "auth_ok"]
            /\ UNCHANGED <<ph_last_ack, ph_commands, replayed>>
       ELSE Leave(s, "unreg_early")
    /\ UNCHANGED <<devices, phones, chan, ph_dev, ct_pc, ct_cmd, assigned, placed, offline, call, sideVars>>

\* ws.rs 362: commands = state.get_pending_commands(device_id, last_ack)
PhoneReplayRead(s) ==
    /\ ph_pc[s] = "auth_ok"
    /\ LET commands == get_pending_commands(devices, ph_dev[s], ph_last_ack[s])
       IN /\ ph_commands' = [ph_commands EXCEPT ![s] = commands]
          /\ replayed' = [replayed EXCEPT ![s] = commands]
          /\ ph_pc' = [ph_pc EXCEPT ![s] = IF commands = <<>> THEN "running" ELSE "replay"]
    /\ UNCHANGED <<devices, phones, chan, ph_dev, ph_last_ack, ph_resume, ws_tx,
                   ct_pc, ct_cmd, assigned, placed, offline, call, sideVars>>

\* ws.rs 364-371: for cmd in commands { send }; a failed send unregisters and returns
PhoneReplaySend(s, ok) ==
    /\ ph_pc[s] = "replay"
    /\ IF ok
       THEN /\ ws_tx' = [ws_tx EXCEPT ![s] = Append(@, CommandFrame(Head(ph_commands[s])))]
            /\ ph_commands' = [ph_commands EXCEPT ![s] = Tail(@)]
            /\ ph_pc' = [ph_pc EXCEPT
                           ![s] = IF Tail(ph_commands[s]) = <<>> THEN "running" ELSE "replay"]
            /\ UNCHANGED <<ph_last_ack, ph_resume, replayed>>
       ELSE Leave(s, "unreg_early")
    /\ UNCHANGED <<devices, phones, chan, ph_dev, ct_pc, ct_cmd, assigned, placed, offline, call, sideVars>>

\* The history of an ack: the ids at or below ack_id are acked, on the list of
\* undelivered commands and in the hands of the controllers.
AckHistory(d, ack_id) ==
    /\ offline' = [offline EXCEPT ![d] = {i \in @ : i > ack_id}]
    /\ ct_cmd' = [c \in Controllers |->
                    IF ct_cmd[c].dev = d /\ ct_cmd[c].command.id <= ack_id
                    THEN [ct_cmd[c] EXCEPT !.acked = TRUE]
                    ELSE ct_cmd[c]]

\* ws.rs 389-393: PhoneMessage::Ack -> state.process_ack(device_id, ack.ack)
PhoneAck(s, ack_id) ==
    /\ ph_pc[s] = "running"
    /\ devices' = process_ack(devices, ph_dev[s], ack_id)
    /\ AckHistory(ph_dev[s], ack_id)
    /\ UNCHANGED <<phones, chan, ph_pc, ph_dev, ph_last_ack, ph_resume, ph_commands, ws_tx,
                   ct_pc, assigned, placed, replayed, call, sideVars>>

\* ws.rs 394-407: PhoneMessage::Response -> store_response, notify_response,
\* then state.process_ack(device_id, resp.id)
PhoneResponse(s, id) ==
    /\ ph_pc[s] = "running"
    /\ responses' = store_response(responses, ph_dev[s], id, hb_now)
    /\ response_rx' = notify_response(ph_dev[s], id)
    /\ devices' = process_ack(devices, ph_dev[s], id)
    /\ AckHistory(ph_dev[s], id)
    /\ UNCHANGED <<phones, chan, ph_pc, ph_dev, ph_last_ack, ph_resume, ph_commands, ws_tx,
                   ct_pc, assigned, placed, replayed, call, sseVars, otherVars, restVars, controllers, event_rx,
                   gateVars, versions, hbVars>>

\* ws.rs 435-440: Some(cmd_json) = cmd_rx.recv() -> send to the phone; a failed
\* send leaves the loop. (A closed, empty channel yields None: the arm is off.)
PhoneForward(s, ok) ==
    /\ ph_pc[s] = "running"
    /\ chan[s] # <<>>
    /\ chan' = [chan EXCEPT ![s] = Tail(@)]
    /\ IF ok
       THEN /\ ws_tx' = [ws_tx EXCEPT ![s] = Append(@, CommandFrame(Head(chan[s])))]
            /\ UNCHANGED <<ph_pc, ph_last_ack, ph_resume, ph_commands, replayed>>
       ELSE Leave(s, "unreg")
    /\ UNCHANGED <<devices, phones, ph_dev, ct_pc, ct_cmd, assigned, placed, offline, call, sideVars>>

\* ws.rs 422-429, 444-447: Close, end of stream, socket error or heartbeat
\* timeout leave the loop.
PhoneBreak(s) ==
    /\ ph_pc[s] = "running"
    /\ Leave(s, "unreg")
    /\ UNCHANGED <<devices, phones, chan, ph_dev, ct_pc, ct_cmd, assigned, placed, offline, call, sideVars>>

\* ws.rs 357, 368, 458-464: connections.unregister_phone(device_id), then the
\* handler returns and its receiver is dropped.
PhoneUnregister(s) ==
    /\ ph_pc[s] \in {"unreg", "unreg_early"}
    /\ PhonesWritable
    /\ EventRoom(ph_dev[s])
    /\ phones' = unregister_phone(ph_dev[s])
    /\ event_rx' = notify_controllers(ph_dev[s], FALSE)
    /\ versions' = IF ph_pc[s] = "unreg" THEN remove_version(ph_dev[s]) ELSE versions
    /\ chan' = [chan EXCEPT ![s] = <<>>]
    /\ ph_pc' = [ph_pc EXCEPT ![s] = "done"]
    /\ UNCHANGED <<devices, ph_dev, ph_last_ack, ph_resume, ph_commands, ws_tx,
                   ct_pc, ct_cmd, assigned, placed, offline, replayed, call,
                   sseVars, moreVars, controllers, response_rx, gateVars, hbVars>>

\* The phone connects again: the name of a finished session is taken by the
\* next connection the listener accepts.
PhoneReconnect(s) ==
    /\ ph_pc[s] = "done"
    /\ ph_pc' = [ph_pc EXCEPT ![s] = "init"]
    /\ UNCHANGED <<devices, phones, chan, ph_dev, ph_last_ack, ph_resume, ph_commands, ws_tx,
                   ct_pc, ct_cmd, assigned, placed, offline, replayed, call, sideVars>>

\* ------------------------------------------- handle_controller_connection

NoCommand == [id |-> 0, cmd |-> ""]

\* ws.rs 546-564: a command frame passes the usage check and is enqueued
\* (the controllers issue no more than `limit` commands for the device)
CtlEnqueueUpTo(c, d, cmd, limit) ==
    /\ ct_pc[c] = "loop"
    /\ cmd_counter(d) < limit
    /\ LET r == enqueue_command(devices, d, cmd)
       IN /\ devices' = r.devices
          /\ ct_cmd' = [ct_cmd EXCEPT ![c] = [dev |-> d, command |-> r.command, acked |-> FALSE]]
          /\ assigned' = [assigned EXCEPT ![d] = Append(@, r.command.id)]
    /\ ct_pc' = [ct_pc EXCEPT ![c] = "enqueued"]
    /\ UNCHANGED <<phones, chan, ph_pc, ph_dev, ph_last_ack, ph_resume, ph_commands, ws_tx,
                   placed, offline, replayed, call, sideVars>>

CtlEnqueue(c, d, cmd) == CtlEnqueueUpTo(c, d, cmd, MaxCmds)

\* connections.rs 110-112: send_to_phone finds the phone's channel full:
\* tx.send(..).await waits for room, the read guard of phones held.
CtlSendWait(c) ==
    /\ ct_pc[c] = "enqueued"
    /\ ct_cmd[c].dev \in DOMAIN phones
    /\ Len(chan[phones[ct_cmd[c].dev]]) >= ChannelCapacity
    /\ ct_pc' = [ct_pc EXCEPT ![c] = "sending"]
    /\ UNCHANGED <<devices, phones, chan, ph_pc, ph_dev, ph_last_ack, ph_resume, ph_commands,
                   ws_tx, ct_cmd, assigned, placed, offline, replayed, call, sideVars>>

\* ws.rs 566-579: sent = connections.send_to_phone(target, cmd_json) (the bounded
\* send returns once the channel has room; false only logs), then cmd_accepted is
\* written to the controller's own socket: a failed write leaves the loop.
CtlSendToPhone(c, ok) ==
    /\ ct_pc[c] \in {"enqueued", "sending"}
    /\ LET d == ct_cmd[c].dev
           command == ct_cmd[c].command
           r == send_to_phone(d, command)
       IN /\ d \in DOMAIN phones => Len(chan[phones[d]]) < ChannelCapacity
          /\ chan' = r.chan
          /\ placed' = IF r.sent THEN [placed EXCEPT ![d] = Append(@, command.id)] ELSE placed
          /\ offline' = IF r.sent \/ ct_cmd[c].acked THEN offline
                        ELSE [offline EXCEPT ![d] = @ \cup {command.id}]
    /\ ct_pc' = [ct_pc EXCEPT ![c] = IF ok THEN "loop" ELSE "done"]
    /\ ct_cmd' = [ct_cmd EXCEPT ![c] = [dev |-> "", command |-> NoCommand, acked |-> FALSE]]
    /\ ct_sock' = IF ok THEN Written(c, CmdAcceptedFrame(ct_cmd[c].command.id)) ELSE ct_sock
    /\ UNCHANGED <<devices, phones, ph_pc, ph_dev, ph_last_ack, ph_resume, ph_commands, ws_tx,
                   assigned, replayed, call, sseVars, otherVars, responses, au_target,
                   busVars, gateVars, versions, hbVars>>

\* ------------------------------------------------------------- the relay

Init ==
    /\ devices = EmptyMap
    /\ assigned = [d \in Devices |-> <<>>]
    /\ call = NoCall
    /\ InitRelayIdle

\* The steps of the phone sessions SS and of the controllers CC.
RelayNext(SS, CC) ==
    \/ \E s \in SS, d \in Devices, la \in AckIds : PhoneRegister(s, d, la)
    \/ \E s \in SS : PhoneRegisterState(s)
    \/ \E s \in SS : PhoneGetLastAck(s)
    \/ \E s \in SS, ok \in BOOLEAN : PhoneSendAuthOk(s, ok)
    \/ \E s \in SS : PhoneReplayRead(s)
    \/ \E s \in SS, ok \in BOOLEAN : PhoneReplaySend(s, ok)
    \/ \E s \in SS, a \in AckIds : PhoneAck(s, a)
    \/ \E s \in SS, a \in AckIds : PhoneResponse(s, a)
    \/ \E s \in SS, ok \in BOOLEAN : PhoneForward(s, ok)
    \/ \E s \in SS : PhoneBreak(s)
    \/ \E s \in SS : PhoneUnregister(s)
    \/ \E c \in CC, d \in Devices, cmd \in CmdNames : CtlEnqueue(c, d, cmd)
    \/ \E c \in CC, ok \in BOOLEAN : CtlSendToPhone(c, ok)

\* Two phone connections at a time and two controllers.
Next == RelayNext(Sessions, Controllers)

Spec == Init /\ [][Next]_vars

\* One controller; phone connections overlap (eviction, reconnect).
NextReconnect == RelayNext(Sessions, {"c1"})

SpecReconnect == Init /\ [][NextReconnect]_vars

\* Two controllers; one phone connection at a time, reconnecting without end.
NextControllers ==
    \/ RelayNext({"p1"}, Controllers)
    \/ PhoneReconnect("p1")

SpecControllers == Init /\ [][NextControllers]_vars

\* ------------------------------------------------- a phone that stops reading

\* Commands enough to fill the phone's channel and have one more wait.
StallCmds == ChannelCapacity + 1

\* Phone p1 is served in its main loop for d1, admitted with last_ack 0 and
\* nothing to replay; no command was issued yet.
InitStall ==
    /\ devices = MapPut(EmptyMap, "d1", DeviceState_new)
    /\ assigned = [d \in Devices |-> <<>>]
    /\ call = NoCall
    /\ InitSse
    /\ InitBus
    /\ InitGate
    /\ InitHb
    /\ InitMore
    /\ phones = MapPut(EmptyMap, "d1", "p1")
    /\ chan = [s \in Sessions |-> <<>>]
    /\ ph_pc = [s \in Sessions |-> IF s = "p1" THEN "running" ELSE "init"]
    /\ ph_dev = [s \in Sessions |-> "d1"]
    /\ ph_last_ack = [s \in Sessions |-> 0]
    /\ ph_resume = [s \in Sessions |-> 0]
    /\ ph_commands = [s \in Sessions |-> <<>>]
    /\ ws_tx = [s \in Sessions |-> IF s = "p1" THEN <<AuthOkFrame(0)>> ELSE <<>>]
    /\ ct_pc = [c \in Controllers |-> "loop"]
    /\ ct_cmd = [c \in Controllers |-> [dev |-> "", command |-> NoCommand, acked |-> FALSE]]
    /\ placed = [d \in Devices |-> <<>>]
    /\ offline = [d \in Devices |-> {}]
    /\ replayed = [s \in Sessions |-> <<>>]

\* The phone session and one controller of its device; the phone may stop
\* reading at any point (its handler then forwards nothing more).
NextStall ==
    \/ \E ok \in BOOLEAN : PhoneForward("p1", ok)
    \/ PhoneBreak("p1")
    \/ PhoneUnregister("p1")
    \/ \E d \in Devices, cmd \in CmdNames : CtlEnqueueUpTo("c1", d, cmd, StallCmds)
    \/ CtlSendWait("c1")
    \/ \E ok \in BOOLEAN : CtlSendToPhone("c1", ok)

SpecStall == InitStall /\ [][NextStall]_vars

\* ------------------------------------------------------ the response fan-out

\* ws.rs 520-523: register_controller(target_device_id), then subscribe_responses
CtlRegister(c) ==
    /\ ct_pc[c] = "connecting"
    /\ au_pc[c] = "admitted"
    /\ \A i \in 1 .. Len(ControllerOrder) :
          ControllerOrder[i] = c => \A j \in 1 .. i - 1 : ct_pc[ControllerOrder[j]] # "connecting"
    /\ controllers' = register_controller(Target(c), c)
    /\ event_rx' = MapPut(event_rx, c, <<>>)
    /\ response_rx' = subscribe_responses(c)
    /\ ct_pc' = [ct_pc EXCEPT ![c] = "registered"]
    /\ UNCHANGED <<devices, phones, chan, ph_pc, ph_dev, ph_last_ack, ph_resume, ph_commands,
                   ws_tx, ct_cmd, assigned, placed, offline, replayed, call, sseVars, moreVars, gateVars, versions, hbVars>>

\* ws.rs 526-530: auth_ok is written; a failed write returns (the receivers of
\* the session are dropped, its sender stays in controllers)
CtlSendAuthOk(c, ok) ==
    /\ ct_pc[c] = "registered"
    /\ ct_pc' = [ct_pc EXCEPT ![c] = IF ok THEN "loop" ELSE "done"]
    /\ response_rx' = IF ok THEN response_rx ELSE MapRemove(response_rx, c)
    /\ ct_sock' = IF ok /\ c \in DOMAIN ct_sock
                  THEN Written(c, AuthOkControllerFrame(ct_sock[c].phone_connected))
                  ELSE ct_sock
    /\ UNCHANGED <<devices, phones, chan, ph_pc, ph_dev, ph_last_ack, ph_resume, ph_commands,
                   ws_tx, ct_cmd, assigned, placed, offline, replayed, call, sseVars,
                   otherVars, responses, au_target,
                   controllers, event_rx, gateVars, versions, hbVars>>

\* ws.rs 624-630: Ok((device, id, json)) = response_rx.recv(): the oldest unread
\* response is taken and, when it is of the target device, written to the
\* controller's socket; a failed write leaves the loop.
CtlResponse(c, ok) ==
    /\ ct_pc[c] = "loop"
    /\ c \in DOMAIN response_rx
    /\ response_rx[c] # <<>>
    /\ LET resp == Head(response_rx[c])
           failed == resp.dev = Target(c) /\ ~ok
       IN /\ response_rx' = IF failed THEN MapRemove(response_rx, c)
                            ELSE [response_rx EXCEPT ![c] = Tail(@)]
          /\ ct_pc' = [ct_pc EXCEPT ![c] = IF failed THEN "done" ELSE "loop"]
          /\ ct_sock' = IF resp.dev = Target(c) /\ ok
                        THEN Written(c, ResponseFrame(resp.id, resp.dev))
                        ELSE ct_sock
    /\ UNCHANGED <<devices, phones, chan, ph_pc, ph_dev, ph_last_ack, ph_resume, ph_commands,
                   ws_tx, ct_cmd, assigned, placed, offline, replayed, call, sseVars,
                   otherVars, responses, au_target,
                   controllers, event_rx, gateVars, versions, hbVars>>

\* ws.rs 616-621: Some(event_json) = event_rx.recv(): the oldest unread event
\* is written to the controller's socket; a failed write leaves the loop.
CtlEvent(c, ok) ==
    /\ ct_pc[c] = "loop"
    /\ c \in DOMAIN event_rx
    /\ event_rx[c] # <<>>
    /\ event_rx' = [event_rx EXCEPT ![c] = Tail(@)]
    /\ ct_pc' = [ct_pc EXCEPT ![c] = IF ok THEN "loop" ELSE "done"]
    /\ ct_sock' = IF ok THEN Written(c, StatusFrame(Head(event_rx[c]).connected, Head(event_rx[c]).dev))
                  ELSE ct_sock
    /\ UNCHANGED <<devices, phones, chan, ph_pc, ph_dev, ph_last_ack, ph_resume, ph_commands,
                   ws_tx, ct_cmd, assigned, placed, offline, replayed, call, sseVars,
                   otherVars, responses, au_target,
                   controllers, response_rx, gateVars, versions, hbVars>>

\* Phone p1 is served in its main loop for d1; the controllers connect.
InitFanout ==
    /\ devices = MapPut(EmptyMap, "d1", DeviceState_new)
    /\ assigned = [d \in Devices |-> <<>>]
    /\ call = NoCall
    /\ InitSse
    /\ InitGate
    /\ InitHb
    /\ InitMore
    /\ controllers = EmptyMap
    /\ response_rx = EmptyMap
    /\ event_rx = EmptyMap
    /\ phones = MapPut(EmptyMap, "d1", "p1")
    /\ chan = [s \in Sessions |-> <<>>]
    /\ ph_pc = [s \in Sessions |-> IF s = "p1" THEN "running" ELSE "init"]
    /\ ph_dev = [s \in Sessions |-> "d1"]
    /\ ph_last_ack = [s \in Sessions |-> 0]
    /\ ph_resume = [s \in Sessions |-> 0]
    /\ ph_commands = [s \in Sessions |-> <<>>]
    /\ ws_tx = [s \in Sessions |-> IF s = "p1" THEN <<AuthOkFrame(0)>> ELSE <<>>]
    /\ ct_pc = [c \in Controllers |-> "connecting"]
    /\ ct_cmd = [c \in Controllers |-> [dev |-> "", command |-> NoCommand, acked |-> FALSE]]
    /\ placed = [d \in Devices |-> <<>>]
    /\ offline = [d \in Devices |-> {}]
    /\ replayed = [s \in Sessions |-> <<>>]

\* The phone emits responses (for command id 1, again and again); the
\* controllers connect and read the bus at their own pace.
NextFanout ==
    \/ \E c \in Controllers : CtlRegister(c)
    \/ \E c \in Controllers, ok \in BOOLEAN : CtlSendAuthOk(c, ok)
    \/ \E c \in Controllers, ok \in BOOLEAN : CtlResponse(c, ok)
    \/ PhoneResponse("p1", 1)

SpecFanout == InitFanout /\ [][NextFanout]_vars

\* -------------------------------------- phone_status events and the responses

\* Commands a controller sends while the events are followed.
StatusCmds == 1

\* Unread responses beyond which the phone emits no further one.
MaxResponses == 2

StatusSessions == {"p1"}
StatusControllers == {"c1"}

\* No phone is connected and no device is known; the controller is connecting.
InitStatus ==
    /\ devices = EmptyMap
    /\ assigned = [d \in Devices |-> <<>>]
    /\ call = NoCall
    /\ InitSse
    /\ InitGate
    /\ InitHb
    /\ InitMore
    /\ controllers = EmptyMap
    /\ response_rx = EmptyMap
    /\ event_rx = EmptyMap
    /\ phones = EmptyMap
    /\ chan = [s \in Sessions |-> <<>>]
    /\ ph_pc = [s \in Sessions |-> "init"]
    /\ ph_dev = [s \in Sessions |-> "d1"]
    /\ ph_last_ack = [s \in Sessions |-> 0]
    /\ ph_resume = [s \in Sessions |-> 0]
    /\ ph_commands = [s \in Sessions |-> <<>>]
    /\ ws_tx = [s \in Sessions |-> <<>>]
    /\ ct_pc = [c \in Controllers |-> "connecting"]
    /\ ct_cmd = [c \in Controllers |-> [dev |-> "", command |-> NoCommand, acked |-> FALSE]]
    /\ placed = [d \in Devices |-> <<>>]
    /\ offline = [d \in Devices |-> {}]
    /\ replayed = [s \in Sessions |-> <<>>]

\* The phone emits a response for command id 1 while the controller has room
\* for it among the responses it follows.
PhoneRespond(s) ==
    /\ \A c \in DOMAIN response_rx : Len(response_rx[c]) < MaxResponses
    /\ PhoneResponse(s, 1)

\* One controller session and one phone session, the controller reading its
\* socket, its event channel and the response bus in any order.
NextStatus ==
    \/ \E c \in StatusControllers : CtlRegister(c)
    \/ \E c \in StatusControllers, ok \in BOOLEAN : CtlSendAuthOk(c, ok)
    \/ \E c \in StatusControllers, ok \in BOOLEAN : CtlEvent(c, ok)
    \/ \E c \in StatusControllers, ok \in BOOLEAN : CtlResponse(c, ok)
    \/ \E c \in StatusControllers, d \in Devices, cmd \in CmdNames :
          CtlEnqueueUpTo(c, d, cmd, StatusCmds)
    \/ \E c \in StatusControllers, ok \in BOOLEAN : CtlSendToPhone(c, ok)
    \/ \E s \in StatusSessions, d \in Devices, la \in AckIds : PhoneRegister(s, d, la)
    \/ \E s \in StatusSessions : PhoneRegisterState(s)
    \/ \E s \in StatusSessions : PhoneGetLastAck(s)
    \/ \E s \in StatusSessions, ok \in BOOLEAN : PhoneSendAuthOk(s, ok)
    \/ \E s \in StatusSessions : PhoneReplayRead(s)
    \/ \E s \in StatusSessions, ok \in BOOLEAN : PhoneReplaySend(s, ok)
    \/ \E s \in StatusSessions : PhoneRespond(s)
    \/ \E s \in StatusSessions, ok \in BOOLEAN : PhoneForward(s, ok)
    \/ \E s \in StatusSessions : PhoneBreak(s)
    \/ \E s \in StatusSessions : PhoneUnregister(s)

SpecStatus == InitStatus /\ [][NextStatus]_vars

\* A controller that reads its event channel at its own pace (its task waits
\* on the write to a socket the client does not drain) while the phone of its
\* device connects and disconnects again and again.
NextEvents ==
    \/ \E c \in StatusControllers : CtlRegister(c)
    \/ \E c \in StatusControllers, ok \in BOOLEAN : CtlSendAuthOk(c, ok)
    \/ \E c \in StatusControllers, ok \in BOOLEAN : CtlEvent(c, ok)
    \/ \E s \in StatusSessions, d \in Devices, la \in AckIds : PhoneRegister(s, d, la)
    \/ \E s \in StatusSessions : PhoneRegisterState(s)
    \/ \E s \in StatusSessions : PhoneGetLastAck(s)
    \/ \E s \in StatusSessions, ok \in BOOLEAN : PhoneSendAuthOk(s, ok)
    \/ \E s \in StatusSessions : PhoneReplayRead(s)
    \/ \E s \in StatusSessions : PhoneBreak(s)
    \/ \E s \in StatusSessions : PhoneUnregister(s)
    \/ \E s \in StatusSessions : PhoneReconnect(s)

SpecEvents == InitStatus /\ [][NextEvents]_vars

\* ------------------------------------- what a controller is told of its target

\* Frames written to a controller's socket or unread on its event channel
\* before the phone stops reconnecting.
MaxFrames == 3

\* ws.rs 484: phone_connected = connections.is_phone_connected(target_device_id)
CtlCheckPhone(c) ==
    /\ ct_pc[c] = "connecting"
    /\ au_pc[c] = "admitted"
    /\ c \notin DOMAIN ct_sock
    /\ ct_sock' = MapPut(ct_sock, c, [phone_connected |-> is_phone_connected(Target(c)),
                                      out |-> <<>>])
    /\ UNCHANGED <<coreVars, sseVars, otherVars, responses, au_target, busVars, gateVars,
                   versions, hbVars>>

\* ws.rs 520-523, after the read of the phone's status
CtlRegisterChecked(c) ==
    /\ c \in DOMAIN ct_sock
    /\ CtlRegister(c)

\* The phone connects again while the controller has been sent few frames.
PhoneReconnectUpTo(s, n) ==
    /\ \A c \in DOMAIN ct_sock :
          Len(ct_sock[c].out) + (IF c \in DOMAIN event_rx THEN Len(event_rx[c]) ELSE 0) < n
    /\ PhoneReconnect(s)

\* One controller session from its first step, beside one phone that connects
\* and disconnects.
NextKnown ==
    \/ \E c \in StatusControllers : CtlCheckPhone(c)
    \/ \E c \in StatusControllers : CtlRegisterChecked(c)
    \/ \E c \in StatusControllers, ok \in BOOLEAN : CtlSendAuthOk(c, ok)
    \/ \E c \in StatusControllers, ok \in BOOLEAN : CtlEvent(c, ok)
    \/ \E s \in StatusSessions, d \in Devices, la \in AckIds : PhoneRegister(s, d, la)
    \/ \E s \in StatusSessions : PhoneRegisterState(s)
    \/ \E s \in StatusSessions : PhoneGetLastAck(s)
    \/ \E s \in StatusSessions, ok \in BOOLEAN : PhoneSendAuthOk(s, ok)
    \/ \E s \in StatusSessions : PhoneReplayRead(s)
    \/ \E s \in StatusSessions : PhoneBreak(s)
    \/ \E s \in StatusSessions : PhoneUnregister(s)
    \/ \E s \in StatusSessions : PhoneReconnectUpTo(s, MaxFrames)

SpecKnown == InitStatus /\ [][NextKnown]_vars

\* ------------------------------------------------ handle_connection: the gate

\* Frames a connection may send before its auth frame.
MaxPreAuth == 1

\* In how many fields an auth frame may differ from one that passes.
MaxDeviations == 1

AuthFields == {"user_id", "key", "device_id", "version", "ip_allowed"}

\* The auth frames a connection may send. A frame names the role's credential
\* field (user_id for a phone, key for a controller) and perhaps the other.
AuthMsgs(x) ==
    {m \in [role : {RoleOf(x)}, user_id : {"none", "", "u1", "bad"},
            key : {"none", "", "pk1", "bad"}, device_id : {"none", "d1", "d9"},
            version : {"none", "ok", "old"}, ip_allowed : BOOLEAN] :
        Cardinality({f \in AuthFields : m[f] # GoodAuth(x)[f]}) <= MaxDeviations}

\* ws.rs 221-224: the credential is read from the field of the frame's role
token(m) == IF m.role = "controller" THEN m.key ELSE m.user_id

\* FileAuth::verify_token: the user's id or one of the API keys
verify_token(t) == t = UserId \/ t \in ApiKeys

\* FileAuth::verify_device: an empty list accepts every device
verify_device(d) == Allowed = {} \/ d \in Allowed

\* A gate that does not verify the token.
auth_outcome_unverified(m) ==
    IF token(m) \in {"none", ""} THEN "auth_fail: missing auth credential"
    ELSE IF ~verify_device(device_id(m)) THEN "auth_fail: device not allowed"
    ELSE IF ~m.ip_allowed THEN "auth_fail: connection from this IP is not allowed"
    ELSE IF m.version # "none" /\ ~check_version_compatible(m.version)
         THEN "error: outdated_client"
    ELSE "ok"

\* ws.rs 221-303: the checks of handle_connection in their order; the frame
\* written at the first one that fails, "ok" when all pass
auth_outcome(m) ==
    IF token(m) \in {"none", ""} THEN "auth_fail: missing auth credential"
    ELSE IF ~verify_token(token(m)) THEN "auth_fail: invalid token"
    ELSE IF ~verify_device(device_id(m)) THEN "auth_fail: device not allowed"
    ELSE IF ~m.ip_allowed THEN "auth_fail: connection from this IP is not allowed"
    ELSE IF m.version # "none" /\ ~check_version_compatible(m.version)
         THEN "error: outdated_client"
    ELSE "ok"

\* ws.rs 186-201: a frame that is no auth frame: a text frame is answered with
\* the error, any other kind is skipped; the deadline runs on
AuthOther(x, kind) ==
    /\ au_pc[x] = "await"
    /\ au_seen[x] < MaxPreAuth   \* counted until the auth frame or the deadline
    /\ au_seen' = [au_seen EXCEPT ![x] = @ + 1]
    /\ au_out' = [au_out EXCEPT ![x] = IF kind = "text"
                                        THEN @ \cup {"error: expected auth message"} ELSE @]
    /\ UNCHANGED <<coreVars, sseVars, moreVars, busVars, hbVars, au_pc, au_msg, versions>>

\* ws.rs 187-189: the auth frame arrives before the deadline
AuthFrame(x, m) ==
    /\ au_pc[x] = "await"
    /\ au_msg' = [au_msg EXCEPT ![x] = m]
    /\ au_pc' = [au_pc EXCEPT ![x] = "checking"]
    /\ au_seen' = [au_seen EXCEPT ![x] = 0]
    /\ UNCHANGED <<coreVars, sseVars, moreVars, busVars, hbVars, au_out, versions>>

\* ws.rs 196-217: AUTH_TIMEOUT passes, or the peer closes, or the read fails,
\* before an auth frame: auth_fail("auth timeout") and close
AuthNone(x) ==
    /\ au_pc[x] = "await"
    /\ au_out' = [au_out EXCEPT ![x] = @ \cup {"auth_fail: auth timeout"}]
    /\ au_pc' = [au_pc EXCEPT ![x] = "closed"]
    /\ au_seen' = [au_seen EXCEPT ![x] = 0]
    /\ UNCHANGED <<coreVars, sseVars, moreVars, busVars, hbVars, au_msg, versions>>

\* A gate that stores the version it is told before it has checked it.
AuthCheck_stores_unchecked(x) ==
    /\ au_pc[x] = "checking"
    /\ LET m == au_msg[x]
           r == auth_outcome(m)
       IN /\ au_pc' = [au_pc EXCEPT ![x] = IF r = "ok" THEN "admitted" ELSE "closed"]
          /\ au_out' = [au_out EXCEPT ![x] = IF r = "ok" THEN @ ELSE @ \cup {r}]
          /\ versions' = IF m.version # "none"
                         THEN set_version(device_id(m), m.version) ELSE versions
    /\ UNCHANGED <<coreVars, sseVars, moreVars, busVars, hbVars, au_msg, au_seen>>

\* ws.rs 221-306: the checks; the first failure is answered and the connection
\* closed; a connection that passes has its version stored, if it named one
AuthCheck(x) ==
    /\ au_pc[x] = "checking"
    /\ LET m == au_msg[x]
           r == auth_outcome(m)
       IN /\ au_pc' = [au_pc EXCEPT ![x] = IF r = "ok" THEN "admitted" ELSE "closed"]
          /\ au_out' = [au_out EXCEPT ![x] = IF r = "ok" THEN @ ELSE @ \cup {r}]
          /\ versions' = IF r = "ok" /\ m.version # "none"
                         THEN set_version(device_id(m), m.version) ELSE versions
    /\ UNCHANGED <<coreVars, sseVars, moreVars, busVars, hbVars, au_msg, au_seen>>

\* The listener has accepted the connections; none has sent a frame.
InitAuth ==
    /\ devices = EmptyMap
    /\ assigned = [d \in Devices |-> <<>>]
    /\ call = NoCall
    /\ InitSse
    /\ InitHb
    /\ InitMore
    /\ controllers = EmptyMap
    /\ response_rx = EmptyMap
    /\ event_rx = EmptyMap
    /\ au_pc = [x \in Conns |-> "await"]
    /\ au_msg = [x \in Conns |-> NoAuth]
    /\ au_out = [x \in Conns |-> {}]
    /\ au_seen = [x \in Conns |-> 0]
    /\ versions = EmptyMap
    /\ phones = EmptyMap
    /\ chan = [s \in Sessions |-> <<>>]
    /\ ph_pc = [s \in Sessions |-> "init"]
    /\ ph_dev = [s \in Sessions |-> "d1"]
    /\ ph_last_ack = [s \in Sessions |-> 0]
    /\ ph_resume = [s \in Sessions |-> 0]
    /\ ph_commands = [s \in Sessions |-> <<>>]
    /\ ws_tx = [s \in Sessions |-> <<>>]
    /\ ct_pc = [c \in Controllers |-> "connecting"]
    /\ ct_cmd = [c \in Controllers |-> [dev |-> "", command |-> NoCommand, acked |-> FALSE]]
    /\ placed = [d \in Devices |-> <<>>]
    /\ offline = [d \in Devices |-> {}]
    /\ replayed = [s \in Sessions |-> <<>>]

\* One phone connection and one controller connection, from their first frame
\* to the end of their sessions (the phone acknowledges with ack frames).
NextAuth ==
    \/ \E x \in {"p1", "c1"}, kind \in {"text", "other"} : AuthOther(x, kind)
    \/ \E x \in {"p1", "c1"} : \E m \in AuthMsgs(x) : AuthFrame(x, m)
    \/ \E x \in {"p1", "c1"} : AuthNone(x)
    \/ \E x \in {"p1", "c1"} : AuthCheck(x)
    \/ CtlRegister("c1")
    \/ \E ok \in BOOLEAN : CtlSendAuthOk("c1", ok)
    \/ \E ok \in BOOLEAN : CtlEvent("c1", ok)
    \/ \E d \in Devices, la \in AckIds : PhoneRegister("p1", d, la)
    \/ PhoneRegisterState("p1")
    \/ PhoneGetLastAck("p1")
    \/ \E ok \in BOOLEAN : PhoneSendAuthOk("p1", ok)
    \/ PhoneReplayRead("p1")
    \/ \E ok \in BOOLEAN : PhoneReplaySend("p1", ok)
    \/ \E a \in AckIds : PhoneAck("p1", a)
    \/ \E ok \in BOOLEAN : PhoneForward("p1", ok)
    \/ PhoneBreak("p1")
    \/ PhoneUnregister("p1")
    \/ \E d \in Devices, cmd \in CmdNames : CtlEnqueue("c1", d, cmd)
    \/ \E ok \in BOOLEAN : CtlSendToPhone("c1", ok)

SpecAuth == InitAuth /\ [][NextAuth]_vars

\* ------------------------------------------- the target of a controller session

\* Device ids an auth frame may name as its target: the allowed one and one
\* that is not on the list.
TargetIds == {"d1", "d9"}

\* Commands the controller sends to its target.
TargetCmds == 2

\* ws.rs 187-189, protocol.rs AuthMessage: an auth frame that carries a
\* target_device_id
AuthFrameTo(x, m, t) ==
    /\ au_pc[x] = "await"
    /\ au_msg' = [au_msg EXCEPT ![x] = m]
    /\ au_target' = [au_target EXCEPT ![x] = t]
    /\ au_pc' = [au_pc EXCEPT ![x] = "checking"]
    /\ au_seen' = [au_seen EXCEPT ![x] = 0]
    /\ UNCHANGED <<coreVars, sseVars, otherVars, responses, ct_sock, busVars, hbVars, au_out,
                   versions>>

\* The listener has accepted the controller's connection; no phone connects.
InitTarget ==
    /\ devices = EmptyMap
    /\ assigned = [d \in TargetIds |-> <<>>]
    /\ call = NoCall
    /\ InitSse
    /\ InitHb
    /\ InitMore
    /\ controllers = EmptyMap
    /\ response_rx = EmptyMap
    /\ event_rx = EmptyMap
    /\ au_pc = [x \in Conns |-> "await"]
    /\ au_msg = [x \in Conns |-> NoAuth]
    /\ au_out = [x \in Conns |-> {}]
    /\ au_seen = [x \in Conns |-> 0]
    /\ versions = EmptyMap
    /\ phones = EmptyMap
    /\ chan = [s \in Sessions |-> <<>>]
    /\ ph_pc = [s \in Sessions |-> "init"]
    /\ ph_dev = [s \in Sessions |-> "d1"]
    /\ ph_last_ack = [s \in Sessions |-> 0]
    /\ ph_resume = [s \in Sessions |-> 0]
    /\ ph_commands = [s \in Sessions |-> <<>>]
    /\ ws_tx = [s \in Sessions |-> <<>>]
    /\ ct_pc = [c \in Controllers |-> "connecting"]
    /\ ct_cmd = [c \in Controllers |-> [dev |-> "", command |-> NoCommand, acked |-> FALSE]]
    /\ placed = [d \in TargetIds |-> <<>>]
    /\ offline = [d \in TargetIds |-> {}]
    /\ replayed = [s \in Sessions |-> <<>>]

\* One controller connection from its auth frame, with or without a
\* target_device_id, to the commands it sends to its target.
NextTarget ==
    \/ \E m \in AuthMsgs("c1") : AuthFrame("c1", m)
    \/ \E m \in AuthMsgs("c1"), t \in TargetIds : AuthFrameTo("c1", m, t)
    \/ AuthNone("c1")
    \/ AuthCheck("c1")
    \/ CtlRegister("c1")
    \/ \E ok \in BOOLEAN : CtlSendAuthOk("c1", ok)
    \/ \E cmd \in CmdNames : CtlEnqueueUpTo("c1", Target("c1"), cmd, TargetCmds)
    \/ \E ok \in BOOLEAN : CtlSendToPhone("c1", ok)

SpecTarget == InitTarget /\ [][NextTarget]_vars

\* ------------------------------------------------- the versions that are stored

\* ws.rs 486-489: the condition under which handle_controller_connection
\* rejects with outdated_remote or both_outdated
cross_version_rejects(c) ==
    /\ is_phone_connected(Target(c))
    /\ Target(c) \in DOMAIN versions
    /\ ~check_version_compatible(versions[Target(c)])

\* ws.rs 484-517: the controller session goes on past the cross-version check
CtlCheckVersion(c) ==
    /\ ~cross_version_rejects(c)
    /\ CtlCheckPhone(c)

\* A phone connection and a controller connection from their auth frames, with
\* any version, to the controller's auth_ok; the phone disconnects at will.
NextVersion ==
    \/ \E x \in {"p1", "c1"} : \E m \in AuthMsgs(x) : AuthFrame(x, m)
    \/ \E x \in {"p1", "c1"} : AuthNone(x)
    \/ \E x \in {"p1", "c1"} : AuthCheck(x)
    \/ \E d \in Devices, la \in AckIds : PhoneRegister("p1", d, la)
    \/ PhoneRegisterState("p1")
    \/ PhoneGetLastAck("p1")
    \/ \E ok \in BOOLEAN : PhoneSendAuthOk("p1", ok)
    \/ PhoneReplayRead("p1")
    \/ PhoneBreak("p1")
    \/ PhoneUnregister("p1")
    \/ CtlCheckVersion("c1")
    \/ CtlRegisterChecked("c1")
    \/ \E ok \in BOOLEAN : CtlSendAuthOk("c1", ok)
    \/ \E ok \in BOOLEAN : CtlEvent("c1", ok)

SpecVersion == InitAuth /\ [][NextVersion]_vars

\* ------------------------------------------------- two devices side by side

TwoDevices == {"d1", "d2"}

\* Frames of its own device a controller is sent, written or still unread.
MaxOwn == 2

\* Phone p1 is served for d1 and phone p2 for d2, both in their main loops;
\* controller c1, whose target is d1, is connecting.
InitTwo ==
    /\ devices = [d \in TwoDevices |-> DeviceState_new]
    /\ assigned = [d \in TwoDevices |-> <<>>]
    /\ call = NoCall
    /\ InitSse
    /\ InitHb
    /\ InitMore
    /\ controllers = EmptyMap
    /\ response_rx = EmptyMap
    /\ event_rx = EmptyMap
    /\ au_pc = [x \in Conns |-> "admitted"]
    /\ au_msg = [x \in Conns |-> IF x = "p2" THEN [GoodAuth(x) EXCEPT !.device_id = "d2"]
                                  ELSE GoodAuth(x)]
    /\ au_out = [x \in Conns |-> {}]
    /\ au_seen = [x \in Conns |-> 0]
    /\ versions = EmptyMap
    /\ phones = [d \in TwoDevices |-> IF d = "d1" THEN "p1" ELSE "p2"]
    /\ chan = [s \in Sessions |-> <<>>]
    /\ ph_pc = [s \in Sessions |-> "running"]
    /\ ph_dev = [s \in Sessions |-> IF s = "p1" THEN "d1" ELSE "d2"]
    /\ ph_last_ack = [s \in Sessions |-> 0]
    /\ ph_resume = [s \in Sessions |-> 0]
    /\ ph_commands = [s \in Sessions |-> <<>>]
    /\ ws_tx = [s \in Sessions |-> <<AuthOkFrame(0)>>]
    /\ ct_pc = [c \in Controllers |-> "connecting"]
    /\ ct_cmd = [c \in Controllers |-> [dev |-> "", command |-> NoCommand, acked |-> FALSE]]
    /\ placed = [d \in TwoDevices |-> <<>>]
    /\ offline = [d \in TwoDevices |-> {}]
    /\ replayed = [s \in Sessions |-> <<>>]

\* The responses of its target among those a controller has not read.
OwnUnread(c, q) == SelectSeq(q, LAMBDA r : r.dev = Target(c))

\* The phone of the followed controllers' target emits a response while they
\* have been sent, or have unread, few frames of their own device.
PhoneRespondOwn(s, n) ==
    /\ \A c \in DOMAIN ct_sock :
          Len(ct_sock[c].out)
            + (IF c \in DOMAIN response_rx THEN Len(OwnUnread(c, response_rx[c])) ELSE 0) < n
    /\ PhoneRespond(s)

\* Controller c1 beside the phone of its target and the phone of another
\* device, which emits responses without end and disconnects at will.
NextTwo ==
    \/ CtlCheckPhone("c1")
    \/ CtlRegisterChecked("c1")
    \/ \E ok \in BOOLEAN : CtlSendAuthOk("c1", ok)
    \/ \E ok \in BOOLEAN : CtlEvent("c1", ok)
    \/ \E ok \in BOOLEAN : CtlResponse("c1", ok)
    \/ PhoneRespondOwn("p1", MaxOwn)
    \/ PhoneResponse("p2", 1)
    \/ \E s \in Sessions : PhoneBreak(s)
    \/ \E s \in Sessions : PhoneUnregister(s)

SpecTwo == InitTwo /\ [][NextTwo]_vars

\* --------------------------------------------- cmd_accepted and the response

\* Responses a controller is sent for its commands, written or still unread.
MaxReplies == 2

\* ws.rs 566-572: sent = connections.send_to_phone(target, cmd_json); false
\* only logs. The write of cmd_accepted is the task's next step.
CtlSend(c) ==
    /\ ct_pc[c] \in {"enqueued", "sending"}
    /\ LET d == ct_cmd[c].dev
           command == ct_cmd[c].command
           r == send_to_phone(d, command)
       IN /\ d \in DOMAIN phones => Len(chan[phones[d]]) < ChannelCapacity
          /\ chan' = r.chan
          /\ placed' = IF r.sent THEN [placed EXCEPT ![d] = Append(@, command.id)] ELSE placed
          /\ offline' = IF r.sent \/ ct_cmd[c].acked THEN offline
                        ELSE [offline EXCEPT ![d] = @ \cup {command.id}]
    /\ ct_pc' = [ct_pc EXCEPT ![c] = "accepting"]
    /\ UNCHANGED <<devices, phones, ph_pc, ph_dev, ph_last_ack, ph_resume, ph_commands, ws_tx,
                   ct_cmd, assigned, replayed, call, sideVars>>

\* A command arm that ends without writing cmd_accepted.
CtlAccept_silent(c, ok) ==
    /\ ct_pc[c] = "accepting"
    /\ ct_pc' = [ct_pc EXCEPT ![c] = IF ok THEN "loop" ELSE "done"]
    /\ ct_cmd' = [ct_cmd EXCEPT ![c] = [dev |-> "", command |-> NoCommand, acked |-> FALSE]]
    /\ UNCHANGED <<devices, phones, chan, ph_pc, ph_dev, ph_last_ack, ph_resume, ph_commands,
                   ws_tx, assigned, placed, offline, replayed, call, sideVars>>

\* ws.rs 574-579: cmd_accepted{command.id} is written to the controller's own
\* socket; a failed write leaves the loop.
CtlAccept(c, ok) ==
    /\ ct_pc[c] = "accepting"
    /\ ct_pc' = [ct_pc EXCEPT ![c] = IF ok THEN "loop" ELSE "done"]
    /\ ct_cmd' = [ct_cmd EXCEPT ![c] = [dev |-> "", command |-> NoCommand, acked |-> FALSE]]
    /\ ct_sock' = IF ok THEN Written(c, CmdAcceptedFrame(ct_cmd[c].command.id)) ELSE ct_sock
    /\ UNCHANGED <<devices, phones, chan, ph_pc, ph_dev, ph_last_ack, ph_resume, ph_commands,
                   ws_tx, assigned, placed, offline, replayed, call, sseVars, otherVars,
                   responses, au_target, busVars, gateVars, versions, hbVars>>

\* The response frames among the frames written to a controller.
ResponsesWritten(c) == SelectSeq(ct_sock[c].out, LAMBDA f : f.type = "response")

\* The phone replies to a command it was sent on this connection, at any time
\* after the command was written to its socket.
PhoneReply(s, id) ==
    /\ \E i \in 1 .. Len(SentIds(s)) : SentIds(s)[i] = id
    /\ \A c \in DOMAIN ct_sock :
          Len(ResponsesWritten(c))
            + (IF c \in DOMAIN response_rx THEN Len(response_rx[c]) ELSE 0) < MaxReplies
    /\ PhoneResponse(s, id)

\* One controller session, taken step by step through its command arm, and
\* the phone of its target, which may connect before or after the command.
NextAccept ==
    \/ \E c \in StatusControllers : CtlCheckPhone(c)
    \/ \E c \in StatusControllers : CtlRegisterChecked(c)
    \/ \E c \in StatusControllers, ok \in BOOLEAN : CtlSendAuthOk(c, ok)
    \/ \E c \in StatusControllers, ok \in BOOLEAN : CtlEvent(c, ok)
    \/ \E c \in StatusControllers, ok \in BOOLEAN : CtlResponse(c, ok)
    \/ \E c \in StatusControllers, cmd \in CmdNames : CtlEnqueueUpTo(c, Target(c), cmd, StatusCmds)
    \/ \E c \in StatusControllers : CtlSend(c)
    \/ \E c \in StatusControllers, ok \in BOOLEAN : CtlAccept(c, ok)
    \/ \E s \in StatusSessions, d \in Devices, la \in AckIds : PhoneRegister(s, d, la)
    \/ \E s \in StatusSessions : PhoneRegisterState(s)
    \/ \E s \in StatusSessions : PhoneGetLastAck(s)
    \/ \E s \in StatusSessions, ok \in BOOLEAN : PhoneSendAuthOk(s, ok)
    \/ \E s \in StatusSessions : PhoneReplayRead(s)
    \/ \E s \in StatusSessions, ok \in BOOLEAN : PhoneReplaySend(s, ok)
    \/ \E s \in StatusSessions, ok \in BOOLEAN : PhoneForward(s, ok)
    \/ \E s \in StatusSessions, id \in 1 .. StatusCmds : PhoneReply(s, id)
    \/ \E s \in StatusSessions : PhoneBreak(s)
    \/ \E s \in StatusSessions : PhoneUnregister(s)

SpecAccept == InitStatus /\ [][NextAccept]_vars

\* ------------------------------------------------------------ the heartbeat

HEARTBEAT_INTERVAL == 30
HEARTBEAT_TIMEOUT == 60

\* The clock is followed for this many seconds.
MaxTime == 100

\* The phone reads no more than this many of the commands that wait for it.
MaxForward == 2

\* The controller sessions whose heartbeat is followed.
HbSessions == {"c1"}

\* The handler of a followed session has a step to take now: it is at its
\* select with the tick due or a frame to read, or it is about to call
\* send_to_phone.
HbBusy(c) ==
    \/ ct_pc[c] = "loop" /\ (hb_now >= hb_next_tick[c] \/ hb_pong[c])
    \/ ct_pc[c] = "enqueued"

\* A second passes; no handler that is free to run lets time pass first.
HbTime ==
    /\ hb_now < MaxTime
    /\ \A c \in HbSessions : ~HbBusy(c)
    /\ hb_now' = hb_now + 1
    /\ UNCHANGED <<coreVars, sseVars, moreVars, busVars, gateVars, versions,
                   hb_last_pong, hb_next_tick, hb_pong, hb_quiet, hb_end>>

\* ws.rs 633-643: the heartbeat arm: more than HEARTBEAT_TIMEOUT since
\* last_pong leaves the loop; otherwise a ping is written (the peer answers it
\* at once unless it has stopped answering), and a failed write leaves the loop.
\* Ticks that came due while the handler was away fire one after the other.
CtlTick(c, ok) ==
    /\ ct_pc[c] = "loop"
    /\ hb_now >= hb_next_tick[c]
    /\ hb_next_tick' = [hb_next_tick EXCEPT ![c] = @ + HEARTBEAT_INTERVAL]
    /\ IF hb_now - hb_last_pong[c] > HEARTBEAT_TIMEOUT
       THEN /\ ct_pc' = [ct_pc EXCEPT ![c] = "done"]
            /\ hb_end' = [hb_end EXCEPT ![c] = "heartbeat timeout"]
            /\ UNCHANGED hb_pong
       ELSE IF ok
       THEN /\ hb_pong' = [hb_pong EXCEPT ![c] = @ \/ ~hb_quiet[c]]
            /\ UNCHANGED <<ct_pc, hb_end>>
       ELSE /\ ct_pc' = [ct_pc EXCEPT ![c] = "done"]
            /\ hb_end' = [hb_end EXCEPT ![c] = "write failed"]
            /\ UNCHANGED hb_pong
    /\ UNCHANGED <<devices, phones, chan, ph_pc, ph_dev, ph_last_ack, ph_resume, ph_commands,
                   ws_tx, ct_cmd, assigned, placed, offline, replayed, call,
                   sseVars, moreVars, busVars, gateVars, versions, hb_now, hb_last_pong, hb_quiet>>

\* ws.rs 589-595, 601-603: a pong is read: last_pong = now
CtlPong(c) ==
    /\ ct_pc[c] = "loop"
    /\ hb_pong[c]
    /\ hb_last_pong' = [hb_last_pong EXCEPT ![c] = hb_now]
    /\ hb_pong' = [hb_pong EXCEPT ![c] = FALSE]
    /\ UNCHANGED <<coreVars, sseVars, moreVars, busVars, gateVars, versions,
                   hb_now, hb_next_tick, hb_quiet, hb_end>>

\* The peer stops answering pings (its last pong was read).
PeerStops(c) ==
    /\ ct_pc[c] # "done"
    /\ ~hb_quiet[c]
    /\ ~hb_pong[c]
    /\ hb_quiet' = [hb_quiet EXCEPT ![c] = TRUE]
    /\ UNCHANGED <<coreVars, sseVars, moreVars, busVars, gateVars, versions,
                   hb_now, hb_last_pong, hb_next_tick, hb_pong, hb_end>>

\* The commands that fill the channel of a phone.
FullChannel == [i \in 1 .. ChannelCapacity |-> [id |-> i, cmd |-> "screenshot"]]
FullIds == [i \in 1 .. ChannelCapacity |-> i]

\* Phone p1 is served for d1 and has read none of the ChannelCapacity commands
\* sent to it; controller c1 enters its loop.
InitHeartbeat ==
    /\ devices = MapPut(EmptyMap, "d1", [pending |-> FullChannel, last_ack |-> 0,
                                         cmd_counter |-> ChannelCapacity])
    /\ assigned = [d \in Devices |-> FullIds]
    /\ call = NoCall
    /\ InitSse
    /\ InitBus
    /\ InitGate
    /\ InitHb
    /\ InitMore
    /\ phones = MapPut(EmptyMap, "d1", "p1")
    /\ chan = [s \in Sessions |-> IF s = "p1" THEN FullChannel ELSE <<>>]
    /\ ph_pc = [s \in Sessions |-> IF s = "p1" THEN "running" ELSE "init"]
    /\ ph_dev = [s \in Sessions |-> "d1"]
    /\ ph_last_ack = [s \in Sessions |-> 0]
    /\ ph_resume = [s \in Sessions |-> 0]
    /\ ph_commands = [s \in Sessions |-> <<>>]
    /\ ws_tx = [s \in Sessions |-> IF s = "p1" THEN <<AuthOkFrame(0)>> ELSE <<>>]
    /\ ct_pc = [c \in Controllers |-> "loop"]
    /\ ct_cmd = [c \in Controllers |-> [dev |-> "", command |-> NoCommand, acked |-> FALSE]]
    /\ placed = [d \in Devices |-> FullIds]
    /\ offline = [d \in Devices |-> {}]
    /\ replayed = [s \in Sessions |-> <<>>]

\* Controller c1 with its heartbeat, sending one more command to the phone,
\* which reads on or not.
NextHeartbeat ==
    \/ HbTime
    \/ \E ok \in BOOLEAN : CtlTick("c1", ok)
    \/ CtlPong("c1")
    \/ PeerStops("c1")
    \/ \E d \in Devices, cmd \in CmdNames : CtlEnqueueUpTo("c1", d, cmd, StallCmds)
    \/ CtlSendWait("c1")
    \/ \E ok \in BOOLEAN : CtlSendToPhone("c1", ok)
    \/ \E ok \in BOOLEAN : Len(SentIds("p1")) < MaxForward /\ PhoneForward("p1", ok)

SpecHeartbeat == InitHeartbeat /\ [][NextHeartbeat]_vars

\* --------------------------------------------- frames that are not acted on

\* A text frame of a phone: whether it is JSON, its "type", and the shape of
\* its "ack", "id" and "status" fields (missing, of the right type, or not).
PhoneFrame(json, type, ack, id, status) ==
    [json |-> json, type |-> type, ack |-> ack, id |-> id, status |-> status, n |-> 1]

\* Text that is no JSON, {}, {"ack":1}, {"ack":"x"}, {"id":1,"status":"ok"},
\* {"id":"x","status":"ok"}, {"id":1}, {"type":"auth"}, {"type":"other"},
\* {"type":"other","ack":1}.
PhoneFrames ==
    {PhoneFrame(FALSE, "none", "none", "none", "none"),
     PhoneFrame(TRUE, "none", "none", "none", "none"),
     PhoneFrame(TRUE, "none", "int", "none", "none"),
     PhoneFrame(TRUE, "none", "bad", "none", "none"),
     PhoneFrame(TRUE, "none", "none", "int", "str"),
     PhoneFrame(TRUE, "none", "none", "bad", "str"),
     PhoneFrame(TRUE, "none", "none", "int", "none"),
     PhoneFrame(TRUE, "auth", "none", "none", "none"),
     PhoneFrame(TRUE, "other", "none", "none", "none"),
     PhoneFrame(TRUE, "other", "int", "none", "none")}

\* protocol.rs parse_phone_message: route by "type", then by "ack", then by
\* "id" and "status"; the untagged fallback finds an AuthMessage in any object
\* with a string "type" and fails otherwise.
parse_phone_message(f) ==
    IF ~f.json THEN "Err"
    ELSE IF f.type = "auth" THEN "Auth"
    ELSE IF f.type = "pong" THEN "Pong"
    ELSE IF f.ack # "none" THEN (IF f.ack = "int" THEN "Ack" ELSE "Err")
    ELSE IF f.id # "none" /\ f.status # "none"
         THEN (IF f.id = "int" /\ f.status = "str" THEN "Response" ELSE "Err")
    ELSE IF f.type # "none" THEN "Auth"
    ELSE "Err"

\* ws.rs 405-417: an auth frame after authentication and a frame that does not
\* parse are logged.
PhoneIgnore(s, why) ==
    /\ refused' = [conn |-> s, why |-> why, wrote |-> <<>>]
    /\ UNCHANGED <<coreVars, sseVars, pure_call, redis, rd_task, responses, restVars, clientVars,
                   busVars, gateVars,
                   versions, hbVars>>

\* ws.rs 385-417: a text frame is read by the loop of a phone session
PhoneText(s, f) ==
    /\ ph_pc[s] = "running"
    /\ LET msg == parse_phone_message(f)
       IN CASE msg = "Ack" -> PhoneAck(s, f.n)
            [] msg = "Response" -> PhoneResponse(s, f.n)
            [] msg = "Auth" -> PhoneIgnore(s, "unexpected auth")
            [] OTHER -> PhoneIgnore(s, "parse error")

\* A text frame of a controller: whether it is JSON, its "type", and its "cmd".
CtlFrame(json, type, cmd) == [json |-> json, type |-> type, cmd |-> cmd, name |-> "screenshot"]

\* Text that is no JSON, {}, {"cmd":"screenshot"}, {"cmd":7}, {"type":"pong"},
\* {"type":"pong","cmd":"screenshot"}.
CtlFrames ==
    {CtlFrame(FALSE, "none", "none"), CtlFrame(TRUE, "none", "none"),
     CtlFrame(TRUE, "none", "str"), CtlFrame(TRUE, "none", "bad"),
     CtlFrame(TRUE, "pong", "none"), CtlFrame(TRUE, "pong", "str")}

\* A parser that takes any JSON object for a command.
parse_controller_message_lenient(f) == IF f.json THEN "Ok" ELSE "Err"

\* protocol.rs parse_controller_message: a ControllerCommand needs a string "cmd"
parse_controller_message(f) == IF f.json /\ f.cmd = "str" THEN "Ok" ELSE "Err"

\* lib.rs 44-47: what UsageBackend::check_and_record returns
UsageChecks == {"Allowed", "LimitReached"}

\* ServerMessage::error
ErrorFrame(text) == [type |-> "error", error |-> text]

\* A handler that goes on to enqueue whatever the usage check said.
usage_refuses_never(usage) == FALSE

\* ws.rs 549-559: LimitReached takes the branch that ends with continue
usage_refuses(usage) == usage = "LimitReached"

\* ws.rs 551-558: the error frame is written (the result of the write is not
\* looked at) and the loop continues.
CtlLimitReached(c) ==
    /\ refused' = [conn |-> c, why |-> "limit reached",
                   wrote |-> <<ErrorFrame("Daily usage limit reached")>>]
    /\ UNCHANGED <<coreVars, sseVars, pure_call, redis, rd_task, responses, restVars, clientVars,
                   busVars, gateVars,
                   versions, hbVars>>

\* ws.rs 589-597: the frame is no command: a pong sets last_pong, anything
\* else is logged.
CtlNoCommand(c, f) ==
    /\ refused' = [conn |-> c, why |-> IF f.json /\ f.type = "pong" THEN "pong" ELSE "parse error",
                   wrote |-> <<>>]
    /\ hb_last_pong' = IF f.json /\ f.type = "pong"
                       THEN [hb_last_pong EXCEPT ![c] = hb_now] ELSE hb_last_pong
    /\ UNCHANGED <<coreVars, sseVars, pure_call, redis, rd_task, responses, restVars, clientVars,
                   busVars, gateVars,
                   versions, hb_now, hb_next_tick, hb_pong, hb_quiet, hb_end>>

\* ws.rs 543-598: a text frame is read by the loop of a controller session
CtlText(c, f, usage) ==
    /\ ct_pc[c] = "loop"
    /\ IF parse_controller_message(f) = "Ok"
       THEN IF usage_refuses(usage)
            THEN CtlLimitReached(c)
            ELSE CtlEnqueue(c, Target(c), f.name)
       ELSE CtlNoCommand(c, f)

\* The sessions that are sent frames of every shape.
TextSessions == {"p1"}
TextControllers == {"c1"}

\* One phone connection and one controller, with frames of every shape.
NextRefuse ==
    \/ \E s \in TextSessions, d \in Devices, la \in AckIds : PhoneRegister(s, d, la)
    \/ \E s \in TextSessions : PhoneRegisterState(s)
    \/ \E s \in TextSessions : PhoneGetLastAck(s)
    \/ \E s \in TextSessions, ok \in BOOLEAN : PhoneSendAuthOk(s, ok)
    \/ \E s \in TextSessions : PhoneReplayRead(s)
    \/ \E s \in TextSessions, ok \in BOOLEAN : PhoneReplaySend(s, ok)
    \/ \E s \in TextSessions, ok \in BOOLEAN : PhoneForward(s, ok)
    \/ \E s \in TextSessions : PhoneBreak(s)
    \/ \E s \in TextSessions : PhoneUnregister(s)
    \/ \E c \in TextControllers, ok \in BOOLEAN : CtlSendToPhone(c, ok)
    \/ \E s \in TextSessions, f \in PhoneFrames : PhoneText(s, f)
    \/ \E c \in TextControllers, f \in CtlFrames, usage \in UsageChecks : CtlText(c, f, usage)

SpecRefuse == Init /\ [][NextRefuse]_vars

\* ------------------------------------------------------ State (Redis keys)

\* The steps of the Redis calls leave everything else alone.
RedisFrame == UNCHANGED <<coreVars, sseVars, pure_call, refused, responses, restVars, clientVars,
                   busVars, gateVars,
                          versions, hbVars>>

\* serde_json::from_str of the pending key, None and unreadable text as empty
from_pending(v) == IF v = RedisNil THEN <<>> ELSE v[1].json

\* serde_json::to_string(&commands)
to_pending(commands) == RedisSome([json |-> commands])

\* The commands that are enqueued in Redis.
MaxRedisCmds == 3

\* state.rs 111-119: id = INCR user:{uid}:cmd_counter
RedisEnqueueIncr(t, cmd) ==
    /\ rd_task[t].pc = "idle"
    /\ LET id == (IF redis.cmd_counter = RedisNil THEN 0 ELSE redis.cmd_counter[1]) + 1
       IN /\ id <= MaxRedisCmds
          /\ redis' = [redis EXCEPT !.cmd_counter = RedisSome(id)]
          /\ rd_task' = [rd_task EXCEPT ![t] = [pc |-> "enqueue_get", id |-> id, ack |-> 0,
                                                 commands |-> <<[id |-> id, cmd |-> cmd]>>]]
    /\ RedisFrame

\* state.rs 122-127: GET user:{uid}:pending and parse it
RedisEnqueueGet(t) ==
    /\ rd_task[t].pc = "enqueue_get"
    /\ rd_task' = [rd_task EXCEPT ![t].pc = "enqueue_set",
                                  ![t].commands = from_pending(redis.pending) \o @]
    /\ UNCHANGED redis
    /\ RedisFrame

\* state.rs 135-137: commands.push(command); SET user:{uid}:pending
RedisEnqueueSet(t) ==
    /\ rd_task[t].pc = "enqueue_set"
    /\ redis' = [redis EXCEPT !.pending = to_pending(rd_task[t].commands)]
    /\ rd_task' = [rd_task EXCEPT ![t] = RedisIdle]
    /\ RedisFrame

\* The ids whose enqueue_command has returned.
RedisIssued ==
    {id \in 1 .. MaxRedisCmds :
        /\ redis.cmd_counter # RedisNil /\ id <= redis.cmd_counter[1]
        /\ \A t \in RedisTasks : rd_task[t].pc \in {"enqueue_get", "enqueue_set"} => rd_task[t].id # id}

\* state.rs 63-64: SET user:{uid}:last_ack (the phone acks a command it was
\* sent, and none twice)
RedisAckSet(t, ack_id) ==
    /\ rd_task[t].pc = "idle"
    /\ ack_id \in RedisIssued
    /\ redis.last_ack # RedisNil => ack_id > redis.last_ack[1]
    /\ redis' = [redis EXCEPT !.last_ack = RedisSome(ack_id)]
    /\ rd_task' = [rd_task EXCEPT ![t] = [pc |-> "ack_get", id |-> 0, ack |-> ack_id,
                                           commands |-> <<>>]]
    /\ RedisFrame

\* state.rs 67-72: GET user:{uid}:pending; a missing key ends the call
RedisAckGet(t) ==
    /\ rd_task[t].pc = "ack_get"
    /\ rd_task' = IF redis.pending = RedisNil
                  THEN [rd_task EXCEPT ![t] = RedisIdle]
                  ELSE [rd_task EXCEPT ![t].pc = "ack_write",
                                       ![t].commands = SelectSeq(from_pending(redis.pending),
                                                                 LAMBDA c : c.id > rd_task[t].ack)]
    /\ UNCHANGED redis
    /\ RedisFrame

\* state.rs 73-74: SET user:{uid}:pending to what remained
RedisAckWrite(t) ==
    /\ rd_task[t].pc = "ack_write"
    /\ redis' = [redis EXCEPT !.pending = to_pending(rd_task[t].commands)]
    /\ rd_task' = [rd_task EXCEPT ![t] = RedisIdle]
    /\ RedisFrame

\* The controllers' handlers call enqueue_command, the phone's handler calls
\* process_ack; a call is a sequence of Redis commands, and the commands of
\* different tasks interleave.
NextRedis ==
    \/ \E c \in Controllers, cmd \in CmdNames : RedisEnqueueIncr(c, cmd)
    \/ \E c \in Controllers : RedisEnqueueGet(c)
    \/ \E c \in Controllers : RedisEnqueueSet(c)
    \/ \E a \in 1 .. MaxRedisCmds : RedisAckSet("p1", a)
    \/ RedisAckGet("p1")
    \/ RedisAckWrite("p1")

SpecRedis == Init /\ [][NextRedis]_vars

\* ------------------------------------------------------------ IpWhitelist

\* The longest allowlist that is tried.
MaxEntries == 2

\* IpAddr: the octets of a V4 address, the 16-bit segments of a V6 address.
V4(a, b, c, d) == [fam |-> "v4", parts |-> <<a, b, c, d>>]
V6(segments) == [fam |-> "v6", parts |-> segments]
\* A text that is no IP address.
BadAddr == [fam |-> "bad", parts |-> <<>>]

\* The width of an address in bits, and of one of its parts.
AddrWidth(a) == IF a.fam = "v4" THEN 32 ELSE 128
PartWidth(a) == IF a.fam = "v4" THEN 8 ELSE 16

\* The w bits of n, the most significant first.
RECURSIVE Bits(_, _)
Bits(n, w) == IF w = 0 THEN <<>> ELSE Append(Bits(n \div 2, w - 1), n % 2)

\* u32::from(Ipv4Addr) / u128::from(Ipv6Addr), as bits
RECURSIVE PartsBits(_, _)
PartsBits(parts, w) ==
    IF parts = <<>> THEN <<>> ELSE Bits(Head(parts), w) \o PartsBits(Tail(parts), w)
AddrBits(a) == PartsBits(a.parts, PartWidth(a))

\* u32::MAX / u128::MAX, x << k on the width of x, x & y
AllOnes(w) == [i \in 1 .. w |-> 1]
ShiftLeft(x, k) == [i \in 1 .. Len(x) |-> IF i + k <= Len(x) THEN x[i + k] ELSE 0]
BitAnd(x, y) == [i \in 1 .. Len(x) |-> x[i] * y[i]]

\* An entry as written in the list: an address, with "/prefix" or without.
\* IpEntry::parse: the address parses, a prefix is at most the width.
IpEntry_parses(t) ==
    /\ t.addr.fam # "bad"
    /\ t.cidr => t.prefix <= AddrWidth(t.addr)

\* IpWhitelist::from_list: the entries that parse, in order
from_list(items) == SelectSeq(items, IpEntry_parses)

\* A contains whose shift is taken modulo the width, with no case for prefix 0.
contains_wrapping(e, ip) ==
    IF ~e.cidr THEN e.addr = ip
    ELSE IF e.addr.fam # ip.fam THEN FALSE
    ELSE LET w == AddrWidth(ip)
             mask == ShiftLeft(AllOnes(w), (w - e.prefix) % w)
         IN BitAnd(AddrBits(e.addr), mask) = BitAnd(AddrBits(ip), mask)

\* IpEntry::contains
contains(e, ip) ==
    IF ~e.cidr THEN e.addr = ip
    ELSE IF e.addr.fam # ip.fam THEN FALSE
    ELSE IF e.prefix = 0 THEN TRUE
    ELSE LET w == AddrWidth(ip)
             mask == ShiftLeft(AllOnes(w), w - e.prefix)
         IN BitAnd(AddrBits(e.addr), mask) = BitAnd(AddrBits(ip), mask)

\* IpWhitelist::check: Ok (TRUE) or Err (FALSE)
check(entries, ip) ==
    IF entries = <<>> THEN TRUE
    ELSE IF ip.fam = "bad" THEN FALSE
    ELSE \E i \in 1 .. Len(entries) : contains(entries[i], ip)

Single(a) == [addr |-> a, cidr |-> FALSE, prefix |-> 0]
Cidr(a, n) == [addr |-> a, cidr |-> TRUE, prefix |-> n]

\* The entries the lists are made of, and the client addresses tried.
EntryTexts ==
    {Cidr(V4(10, 0, 0, 0), 8), Single(V4(192, 168, 1, 5)), Cidr(V4(192, 168, 1, 0), 24),
     Cidr(V4(10, 5, 5, 5), 32), Cidr(V4(8, 8, 8, 8), 0), Cidr(V4(10, 0, 0, 0), 33),
     Cidr(V4(128, 0, 0, 0), 1), Cidr(V4(8, 8, 8, 9), 31),
     Cidr(V6(<<8193, 3512, 0, 0, 0, 0, 0, 0>>), 32), Cidr(V6(<<0, 0, 0, 0, 0, 0, 0, 0>>), 0),
     Single(V6(<<0, 0, 0, 0, 0, 0, 0, 1>>)), Single(BadAddr)}

ClientIps ==
    {V4(10, 5, 5, 5), V4(192, 168, 1, 5), V4(8, 8, 8, 8), V4(192, 168, 1, 6), V4(11, 0, 0, 0),
     V4(200, 1, 1, 1), V6(<<8193, 3512, 0, 0, 0, 0, 0, 1>>), V6(<<0, 0, 0, 0, 0, 0, 0, 1>>),
     V6(<<8193, 3513, 0, 0, 0, 0, 0, 1>>), BadAddr}

ListsUpTo(n) == UNION {[1 .. k -> EntryTexts] : k \in 0 .. n}

\* whitelist = IpWhitelist::from_list(items); whitelist.check(ip)
WhitelistCheck(items, ip) ==
    /\ pure_call = NoPure
    /\ pure_call' = [op |-> "check", args |-> <<items, ip>>, ret |-> check(from_list(items), ip)]
    /\ UNCHANGED <<coreVars, sseVars, refused, redis, rd_task, responses, restVars, clientVars,
                   busVars, gateVars,
                   versions, hbVars>>

NextWhitelist == \E items \in ListsUpTo(MaxEntries), ip \in ClientIps : WhitelistCheck(items, ip)

SpecWhitelist == Init /\ [][NextWhitelist]_vars

\* ------------------------------------------- GET /events and POST /notify

\* The receiver of an SSE channel lives from register_sse until handle_sse returns.
SseReceiverAlive(k) == sse_pc[k] \in {"streaming", "unreg"}

\* Connections::register_sse: sse_clients.insert(device_id, tx) with a fresh
\* channel; the sender it replaces is dropped.
register_sse(d, k) == MapPut(sse_clients, d, k)

\* Connections::unregister_sse: sse_clients.remove(device_id), whoever registered it.
unregister_sse(d) == MapRemove(sse_clients, d)

\* The event handle_notify forwards: the body, with a timestamp.
SseEvent(d) == [device_id |-> d, type |-> "connect"]

\* A send_sse_event that waits for room like send_to_phone: the event is queued
\* whatever the length of the channel.
send_sse_event_unbounded(d, event) ==
    IF d \in DOMAIN sse_clients /\ SseReceiverAlive(sse_clients[d])
    THEN [sent |-> TRUE, chan |-> [sse_chan EXCEPT ![sse_clients[d]] = Append(@, event)]]
    ELSE [sent |-> FALSE, chan |-> sse_chan]

\* Connections::send_sse_event: tx.try_send(event).is_ok() for the registered
\* sender: false with no sender, with the receiver dropped or with the channel full.
send_sse_event(d, event) ==
    IF /\ d \in DOMAIN sse_clients
       /\ SseReceiverAlive(sse_clients[d])
       /\ Len(sse_chan[sse_clients[d]]) < SseChannelCapacity
    THEN [sent |-> TRUE, chan |-> [sse_chan EXCEPT ![sse_clients[d]] = Append(@, event)]]
    ELSE [sent |-> FALSE, chan |-> sse_chan]

\* ws.rs 666-742: the request passes the device_id, token and device checks and
\* the headers and the connected event are written; any failure returns.
SseAdmit(k, d, ok) ==
    /\ sse_pc[k] = "new"
    /\ \A i \in 1 .. Len(SseOrder) :
          SseOrder[i] = k => \A j \in 1 .. i - 1 : sse_pc[SseOrder[j]] # "new"
    /\ sse_pc' = [sse_pc EXCEPT ![k] = IF ok THEN "admitted" ELSE "done"]
    /\ sse_dev' = [sse_dev EXCEPT ![k] = d]
    /\ UNCHANGED <<nonSseVars, sse_clients, sse_chan, notify>>

\* ws.rs 745: register_sse
SseRegister(k) ==
    /\ sse_pc[k] = "admitted"
    /\ \A i \in 1 .. Len(SseOrder) :
          SseOrder[i] = k => \A j \in 1 .. i - 1 : sse_pc[SseOrder[j]] \notin {"new", "admitted"}
    /\ sse_clients' = register_sse(sse_dev[k], k)
    /\ sse_chan' = [sse_chan EXCEPT ![k] = <<>>]
    /\ sse_pc' = [sse_pc EXCEPT ![k] = "streaming"]
    /\ UNCHANGED <<nonSseVars, sse_dev, notify>>

\* ws.rs 752-759: Some(data) -> write the event; a write error leaves the loop
SseStreamEvent(k, ok) ==
    /\ sse_pc[k] = "streaming"
    /\ sse_chan[k] # <<>>
    /\ sse_chan' = [sse_chan EXCEPT ![k] = Tail(@)]
    /\ sse_pc' = [sse_pc EXCEPT ![k] = IF ok THEN "streaming" ELSE "unreg"]
    /\ UNCHANGED <<nonSseVars, sse_clients, sse_dev, notify>>

\* ws.rs 760: None -> break: the channel is empty and its sender is dropped
\* (another request registered for the device_id, or the entry was removed)
SseChannelClosed(k) ==
    /\ sse_pc[k] = "streaming"
    /\ sse_chan[k] = <<>>
    /\ ~(sse_dev[k] \in DOMAIN sse_clients /\ sse_clients[sse_dev[k]] = k)
    /\ sse_pc' = [sse_pc EXCEPT ![k] = "unreg"]
    /\ UNCHANGED <<nonSseVars, sse_clients, sse_dev, sse_chan, notify>>

\* ws.rs 763-767: the heartbeat comment cannot be written (the reader is gone)
SseWriteError(k) ==
    /\ sse_pc[k] = "streaming"
    /\ sse_pc' = [sse_pc EXCEPT ![k] = "unreg"]
    /\ UNCHANGED <<nonSseVars, sse_clients, sse_dev, sse_chan, notify>>

\* ws.rs 771-774: unregister_sse(device_id), then the handler returns and its
\* receiver is dropped
SseUnregister(k) ==
    /\ sse_pc[k] = "unreg"
    /\ sse_clients' = unregister_sse(sse_dev[k])
    /\ sse_chan' = [sse_chan EXCEPT ![k] = <<>>]
    /\ sse_pc' = [sse_pc EXCEPT ![k] = "done"]
    /\ UNCHANGED <<nonSseVars, sse_dev, notify>>

\* handle_notify: 401 without the notify_secret, 400 for a body that is not JSON
\* or names no device_id, else send_sse_event and 200 or 404.
Notify(d, authorised, body) ==
    LET r == send_sse_event(d, SseEvent(d))
        status == IF ~authorised THEN 401
                  ELSE IF body # "event" THEN 400
                  ELSE IF r.sent THEN 200 ELSE 404
    IN /\ sse_chan' = IF status = 200 THEN r.chan ELSE sse_chan
       /\ notify' = [dev |-> d, status |-> status,
                     registered |-> d \in DOMAIN sse_clients,
                     room |-> d \in DOMAIN sse_clients
                                /\ Len(sse_chan[sse_clients[d]]) < SseChannelCapacity,
                     queued |-> d \in DOMAIN sse_clients
                                  /\ sse_chan'[sse_clients[d]]
                                        = Append(sse_chan[sse_clients[d]], SseEvent(d))]
       /\ UNCHANGED <<nonSseVars, sse_clients, sse_pc, sse_dev>>

NotifyBodies == {"event", "not_json", "no_device_id"}

NextSse ==
    \/ \E k \in SseSessions, d \in Devices, ok \in BOOLEAN : SseAdmit(k, d, ok)
    \/ \E k \in SseSessions : SseRegister(k)
    \/ \E k \in SseSessions, ok \in BOOLEAN : SseStreamEvent(k, ok)
    \/ \E k \in SseSessions : SseChannelClosed(k)
    \/ \E k \in SseSessions : SseWriteError(k)
    \/ \E k \in SseSessions : SseUnregister(k)
    \/ \E d \in Devices, authorised \in BOOLEAN, body \in NotifyBodies : Notify(d, authorised, body)

SpecSse == Init /\ [][NextSse]_vars

\* ------------------------------------------------------- the Rust SDK client

MaxCalls == 2

\* What the SDK client and the desktop agent leave alone: the worker.
workerVars == <<coreVars, sseVars, pure_call, refused, redis, rd_task, responses,
                restVars, busVars, gateVars, versions, hbVars>>

SdkFrame(type, id) == [type |-> type, id |-> id]

\* How the worker ends the handshake of a controller: auth_ok, auth_fail and
\* close, an error frame and close, or the socket ends with no frame.
HandshakeEnds == {"auth_ok", "auth_fail", "error", "drop"}

\* connect_ws up to its wait: the auth frame is queued, auth_result is reset,
\* the recv task is spawned.
SdkConnectWs ==
    /\ sdk.connect_ws = "idle"
    /\ sdk' = [sdk EXCEPT !.auth_result = "None", !.recv_task = "running",
                          !.connect_ws = "waiting"]
    /\ UNCHANGED <<workerVars, sdk_ws, mac>>

\* The worker ends the handshake of the connection.
WorkerHandshake(how) ==
    /\ sdk.connect_ws # "idle"
    /\ sdk_ws.stage = "handshake"
    /\ sdk_ws' = [sdk_ws EXCEPT
           !.stage = IF how = "auth_ok" THEN "serving" ELSE "closed",
           !.from_worker =
               CASE how = "auth_ok" -> Append(@, SdkFrame("auth_ok", 0))
                 [] how = "drop" -> Append(@, SdkFrame("close", 0))
                 [] OTHER -> @ \o <<SdkFrame(how, 0), SdkFrame("close", 0)>>]
    /\ UNCHANGED <<workerVars, sdk, mac>>

\* connect_ws after its wait: a permit of auth_notify ends the wait, and
\* auth_result is taken.
SdkConnectReturn ==
    /\ sdk.connect_ws = "waiting"
    /\ sdk.permit
    /\ sdk' = [sdk EXCEPT !.permit = FALSE, !.auth_result = "None",
                          !.connect_ws = IF sdk.auth_result = "Ok" THEN "Ok" ELSE "Err"]
    /\ UNCHANGED <<workerVars, sdk_ws, mac>>

\* send_command up to its wait (it takes &mut self: one call at a time).
SdkSendCommand ==
    /\ sdk.connect_ws = "Ok"
    /\ sdk.call = 0
    /\ sdk.calls < MaxCalls
    /\ LET n == sdk.calls + 1
           temp_id == sdk.temp_id_counter - 1
       IN  /\ sdk' = [sdk EXCEPT !.temp_id_counter = temp_id,
                                 !.last_temp_id = temp_id,
                                 !.pending = MapPut(@, temp_id, n),
                                 !.call = n, !.call_temp_id = temp_id, !.calls = n]
           /\ sdk_ws' = [sdk_ws EXCEPT !.to_worker = Append(@, n)]
    /\ UNCHANGED <<workerVars, mac>>

\* send_command when its timeout elapses: the entry under the temporary id is
\* removed, if there is one.
SdkTimeout ==
    /\ sdk.call # 0
    /\ sdk' = [sdk EXCEPT !.pending = MapRemove(@, sdk.call_temp_id), !.call = 0]
    /\ UNCHANGED <<workerVars, sdk_ws, mac>>

\* The controller session of the worker takes a command: the next id is
\* assigned and cmd_accepted is written.
WorkerAccept ==
    /\ sdk_ws.stage = "serving"
    /\ sdk_ws.to_worker # <<>>
    /\ LET id == Len(sdk_ws.owner) + 1
       IN  sdk_ws' = [sdk_ws EXCEPT !.to_worker = Tail(@),
                                    !.owner = Append(@, Head(sdk_ws.to_worker)),
                                    !.unanswered = @ \cup {id},
                                    !.from_worker = Append(@, SdkFrame("cmd_accepted", id))]
    /\ UNCHANGED <<workerVars, sdk, mac>>

\* The controller session of the worker forwards the response of a command.
WorkerRespond(id) ==
    /\ sdk_ws.stage = "serving"
    /\ id \in sdk_ws.unanswered
    /\ sdk_ws' = [sdk_ws EXCEPT !.unanswered = @ \ {id},
                                !.from_worker = Append(@, SdkFrame("response", id))]
    /\ UNCHANGED <<workerVars, sdk, mac>>

\* The socket ends while the session is served.
WorkerClose ==
    /\ sdk_ws.stage = "serving"
    /\ sdk_ws' = [sdk_ws EXCEPT !.stage = "closed",
                                !.from_worker = Append(@, SdkFrame("close", 0))]
    /\ UNCHANGED <<workerVars, sdk, mac>>

\* The recv task has left its loop: connected is cleared, every pending sender
\* gets the "connection closed" error, so the call that waits returns Err.
SdkRecvEnded(client) ==
    [client EXCEPT !.recv_task = "ended", !.connected = FALSE,
                   !.pending = EmptyMap, !.call = 0]

\* cmd_accepted in the recv task: the entry under last_temp_id moves to id.
SdkCmdAccepted(client, id) ==
    IF client.last_temp_id \in DOMAIN client.pending
    THEN [client EXCEPT !.pending =
              MapPut(MapRemove(@, client.last_temp_id), id, @[client.last_temp_id])]
    ELSE client

\* A response in the recv task: the sender under its id is removed and gets the
\* response; the call that holds the receiver returns it.
SdkCommandResponse(client, id) ==
    IF id \in DOMAIN client.pending
    THEN IF client.call = client.pending[id]
         THEN [client EXCEPT !.pending = MapRemove(@, id), !.call = 0,
                             !.returned = Append(@, [call |-> client.call, id |-> id])]
         ELSE [client EXCEPT !.pending = MapRemove(@, id)]
    ELSE client

\* One turn of the loop of the recv task.
SdkRecv ==
    /\ sdk.recv_task = "running"
    /\ sdk_ws.from_worker # <<>>
    /\ LET msg == Head(sdk_ws.from_worker)
       IN  sdk' =
             CASE msg.type = "auth_ok" ->
                    [sdk EXCEPT !.connected = TRUE, !.auth_result = "Ok", !.permit = TRUE]
               [] msg.type = "auth_fail" ->
                    SdkRecvEnded([sdk EXCEPT !.auth_result = "Err", !.permit = TRUE])
               [] msg.type = "cmd_accepted" -> SdkCmdAccepted(sdk, msg.id)
               [] msg.type = "response" -> SdkCommandResponse(sdk, msg.id)
               [] msg.type = "close" -> SdkRecvEnded(sdk)
               [] OTHER -> sdk
    /\ sdk_ws' = [sdk_ws EXCEPT !.from_worker = Tail(@)]
    /\ UNCHANGED <<workerVars, mac>>

NextSdk ==
    \/ SdkConnectWs
    \/ \E how \in HandshakeEnds : WorkerHandshake(how)
    \/ SdkConnectReturn
    \/ SdkSendCommand
    \/ SdkTimeout
    \/ WorkerAccept
    \/ \E id \in 1 .. MaxCalls : WorkerRespond(id)
    \/ WorkerClose
    \/ SdkRecv

SpecSdk == Init /\ [][NextSdk]_vars

\* ------------------------------------------ the desktop agent: run_ws_manager

MaxRequests == 3
InternalCapacity == 16

WsCommand(cmd, from) == [cmd |-> cmd, from |-> from]

\* The tray sends Connect or Disconnect on the manager's command channel.
TraySend(cmd) ==
    /\ mac.sent < MaxRequests
    /\ mac' = [mac EXCEPT !.cmd_rx = Append(@, WsCommand(cmd, "tray")),
                          !.sent = @ + 1,
                          !.quiet = IF cmd = "Connect" THEN FALSE ELSE @]
    /\ UNCHANGED <<workerVars, sdk, sdk_ws>>

\* The SSE listener got a connect event: ConnectToWorker on the internal channel.
SseSend ==
    /\ mac.sent < MaxRequests
    /\ Len(mac.internal_rx) < InternalCapacity
    /\ mac' = [mac EXCEPT !.internal_rx = Append(@, WsCommand("ConnectToWorker", "sse")),
                          !.sent = @ + 1,
                          !.quiet = FALSE]
    /\ UNCHANGED <<workerVars, sdk, sdk_ws>>

\* One arm of the manager's match. Connect and ConnectToWorker abort the task
\* there is and spawn run_connection or run_connection_to_worker when the
\* configuration is ready; Disconnect aborts the task.
HandleWsCommand(m, c, ready) ==
    CASE c.cmd = "Disconnect" ->
           [m EXCEPT !.connection_task = "none", !.runs = "", !.quiet = TRUE]
      [] c.cmd \in {"Connect", "ConnectToWorker"} ->
           [m EXCEPT !.connection_task = IF ready THEN "running" ELSE "none",
                     !.runs = IF ~ready THEN ""
                              ELSE IF c.cmd = "Connect" THEN "run_connection"
                              ELSE "run_connection_to_worker",
                     !.quiet = IF c.from = "timer" THEN @ ELSE FALSE]
      [] OTHER -> m

\* One turn of the manager's loop: select! takes a command of either channel.
ManagerTurn(ch, ready) ==
    /\ mac[ch] # <<>>
    /\ mac' = HandleWsCommand([mac EXCEPT ![ch] = Tail(@)], Head(mac[ch]), ready)
    /\ UNCHANGED <<workerVars, sdk, sdk_ws>>

\* schedule_reconnect: a detached task that sleeps is spawned.
schedule_reconnect(m) == [m EXCEPT !.timers = @ + 1]

\* The connection task returns: run_connection after a failure or the end of
\* its socket, with a reconnect scheduled; run_connection_to_worker without.
ConnectionReturns ==
    /\ mac.connection_task = "running"
    /\ mac' = IF mac.runs = "run_connection"
              THEN schedule_reconnect([mac EXCEPT !.connection_task = "finished"])
              ELSE [mac EXCEPT !.connection_task = "finished"]
    /\ UNCHANGED <<workerVars, sdk, sdk_ws>>

\* The sleep of a task of schedule_reconnect is over: it sends Connect.
ReconnectFires ==
    /\ mac.timers > 0
    /\ Len(mac.internal_rx) < InternalCapacity
    /\ mac' = [mac EXCEPT !.timers = @ - 1,
                          !.internal_rx = Append(@, WsCommand("Connect", "timer"))]
    /\ UNCHANGED <<workerVars, sdk, sdk_ws>>

NextMac ==
    \/ \E cmd \in {"Connect", "Disconnect"} : TraySend(cmd)
    \/ SseSend
    \/ \E ch \in {"cmd_rx", "internal_rx"}, ready \in BOOLEAN : ManagerTurn(ch, ready)
    \/ ConnectionReturns
    \/ ReconnectFires

SpecMac == Init /\ [][NextMac]_vars

\* ------------------------------------------------------------- the claims

NoRepeat(s) == \A i, j \in 1 .. Len(s) : i # j => s[i] # s[j]

\* C1: no phone session is sent the same command id twice; a command enqueued
\* while the phone is being admitted is not both replayed from pending and
\* forwarded through the outbound channel.
C1_NoCommandSentTwice == \A s \in Sessions : NoRepeat(SentIds(s))

\* C3: for every device, the command ids placed on the phone's outbound
\* channel are in strictly ascending order, also with several controllers.
C3_PlacedAscending == \A d \in Devices : StrictlyAscending(placed[d])

\* C4: last_ack(d) never decreases: after process_ack(d, A) it is the larger of
\* the previous watermark and A.
C4_LastAckNeverDecreases == [][\A d \in Devices : last_ack(d)' >= last_ack(d)]_vars

\* C5: in every reachable state every command in pending(d) has an id above
\* last_ack(d).
C5_PendingAboveLastAck ==
    \A d \in Devices : \A i \in 1 .. Len(pending(d)) : pending(d)[i].id > last_ack(d)

\* C6: in every reachable state last_ack(d) <= cmd_counter(d), whatever ack ids
\* the phone sends.
C6_LastAckAtMostCounter == \A d \in Devices : last_ack(d) <= cmd_counter(d)

\* C7: the ids enqueue_command assigns on a device are 1, 2, 3, ... from the
\* initial counter, none twice, whatever the interleaving of controllers, acks
\* and phone reconnects; cmd_counter(d) never decreases and is never below the
\* highest id assigned.
C7_IdsCountUp ==
    [][\A d \in Devices :
          /\ cmd_counter(d)' >= cmd_counter(d)
          /\ \A i \in 1 .. Len(assigned'[d]) : assigned'[d][i] = i
          /\ cmd_counter(d)' >= Len(assigned'[d])]_vars

\* Two controllers hold the commands 1 and 2 at once, after the phone acked
\* and left.
C7_Witness ==
    /\ assigned["d1"] = <<1, 2>>
    /\ \A c \in Controllers : ct_pc[c] = "enqueued"
    /\ ph_pc["p1"] = "done"

\* s is t with some entries left out, the others in the order of t.
RECURSIVE IsSubSeq(_, _)
IsSubSeq(s, t) ==
    IF s = <<>> THEN TRUE
    ELSE IF t = <<>> THEN FALSE
    ELSE IF Head(s) = Head(t) THEN IsSubSeq(Tail(s), Tail(t))
    ELSE IsSubSeq(s, Tail(t))

\* C8: after process_ack(d, A) pending(d) is the previous pending(d) without the
\* entries of id <= A, the others in unchanged order; when A is the id of one
\* of the entries it found (an ack of a delivered command, the response to the
\* only pending one), last_ack(d) is then A.
C8_AckDropsUpToA ==
    call.op = "process_ack" =>
        LET d == call.dev
            A == call.arg
            kept == {i \in 1 .. Len(call.before) : call.before[i].id > A}
        IN /\ \A i \in 1 .. Len(pending(d)) : pending(d)[i].id > A
           /\ \A i \in kept : \E j \in 1 .. Len(pending(d)) : pending(d)[j] = call.before[i]
           /\ Len(pending(d)) = Cardinality(kept)
           /\ IsSubSeq(pending(d), call.before)
           /\ A \in Ids(call.before) => last_ack(d) = A
           /\ (Len(call.before) = 1 /\ call.before[1].id = A) => pending(d) = <<>>

\* ack 5 over the pending ids 3, 4, 5, 6 has left id 6 alone.
C8_Witness ==
    /\ call.op = "process_ack"
    /\ call.arg = 5
    /\ IdSeq(call.before) = <<3, 4, 5, 6>>
    /\ IdSeq(pending("d1")) = <<6>>
    /\ last_ack("d1") = 5

\* C9: process_ack is idempotent: from every device state and for every ack id,
\* applying it twice gives the last_ack, pending and cmd_counter of applying it once.
C9_AckIdempotent ==
    \A d \in Devices, A \in BackendAckIds :
        process_ack(process_ack(devices, d, A), d, A) = process_ack(devices, d, A)

\* An ack has removed part of a queue: a second one with the same id now meets
\* a changed watermark and a changed queue.
C9_Witness ==
    /\ call.op = "process_ack"
    /\ Len(call.before) > Len(pending("d1"))
    /\ pending("d1") # <<>>
    /\ process_ack(devices, "d1", call.arg) = devices

Range(s) == {s[i] : i \in 1 .. Len(s)}

\* C2: a command whose send_to_phone returned false stays in pending until an
\* ack with an id at or above its own is processed; the replay read of a phone
\* that declares a last_ack below its id returns it, and a replay that runs to
\* its end has written it to that phone's socket.
C2_OfflineCommandReplayed ==
    /\ \A d \in Devices : offline[d] \subseteq Ids(pending(d))
    /\ \A s \in Sessions :
          ph_pc[s] = "auth_ok" =>
             \A id \in offline[ph_dev[s]] :
                id > ph_last_ack[s] =>
                   id \in Ids(get_pending_commands(devices, ph_dev[s], ph_last_ack[s]))
    /\ \A s \in Sessions :
          ph_pc[s] = "running" => Ids(replayed[s]) \subseteq Range(SentIds(s))

\* Command 2 was enqueued with no phone registered (command 1 is acked); the
\* phone that connected next, declaring last_ack 1, has it from the replay.
C2_Witness ==
    \E s \in Sessions :
        /\ ph_pc[s] = "running"
        /\ ph_last_ack[s] = 1
        /\ 2 \in offline[ph_dev[s]]
        /\ SentIds(s) = <<2>>
        /\ chan[s] = <<>>

\* The step in which session s reads the commands to replay.
ReplayReadStep(s) == ph_pc[s] = "auth_ok" /\ ph_pc'[s] \in {"replay", "running"}

\* C10: for a phone that declares last_ack = A, the replay read returns the
\* entries of pending(d) with id > A, each once and in ascending id order, and
\* leaves pending, last_ack and cmd_counter as they are; the commands are
\* written after auth_ok and before anything the main loop forwards.
C10_ReplayExact ==
    [][\A s \in Sessions :
          /\ ReplayReadStep(s) =>
                /\ devices' = devices
                /\ Ids(replayed'[s]) = {id \in Ids(pending(ph_dev[s])) : id > ph_last_ack[s]}
                /\ IsSubSeq(replayed'[s], pending(ph_dev[s]))
                /\ StrictlyAscending(IdSeq(replayed'[s]))
          /\ ph_pc'[s] = "replay" =>
                /\ ws_tx'[s][1].type = "auth_ok"
                /\ SentIds(s)' \o IdSeq(ph_commands'[s]) = IdSeq(replayed'[s])
          /\ ph_pc'[s] = "running" =>
                /\ ws_tx'[s][1].type = "auth_ok"
                /\ Len(SentIds(s)') >= Len(replayed'[s])
                /\ SubSeq(SentIds(s)', 1, Len(replayed'[s])) = IdSeq(replayed'[s])]_vars

\* With 1 and 2 pending and a declared last_ack of 1, the phone was replayed
\* command 2 alone, and both are still pending.
C10_Witness ==
    \E s \in Sessions :
        /\ ph_pc[s] = "running"
        /\ ph_last_ack[s] = 1
        /\ SentIds(s) = <<2>>
        /\ IdSeq(replayed[s]) = <<2>>
        /\ IdSeq(pending(ph_dev[s])) = <<1, 2>>

\* ------------------------------------------------------ eviction (C11, C12)

\* The steps of session s that the worker takes by itself: they wait for no
\* frame, close or silence of the phone (a write to the socket ends either way).
PhoneWorkerStep(s) ==
    \/ PhoneRegisterState(s)
    \/ PhoneGetLastAck(s)
    \/ \E ok \in BOOLEAN : PhoneSendAuthOk(s, ok)
    \/ PhoneReplayRead(s)
    \/ \E ok \in BOOLEAN : PhoneReplaySend(s, ok)
    \/ \E ok \in BOOLEAN : PhoneForward(s, ok)
    \/ PhoneUnregister(s)

\* The tasks are scheduled fairly: a step a handler can take by itself is taken.
\* Nothing obliges a peer to send a frame, to close or to stop answering pings.
SpecEvictFair ==
    /\ Init
    /\ [][NextReconnect]_vars
    /\ \A s \in Sessions : WF_vars(PhoneWorkerStep(s))
    /\ \A c \in Controllers : WF_vars(\E ok \in BOOLEAN : CtlSendToPhone(c, ok))

\* Session s is served and has a sender registered / another session's sender
\* has replaced its own: its own sender is dropped, its channel is closed.
Live(s) == ph_pc[s] \in {"registered", "state_registered", "resume", "auth_ok", "replay", "running"}
Evicted(s) == Live(s) /\ ph_dev[s] \in DOMAIN phones /\ phones[ph_dev[s]] # s

\* No session later in the order of admission has reached register_phone.
LatestAdmitted(s) ==
    \A i, j \in 1 .. Len(SessionOrder) :
        (SessionOrder[i] = s /\ i < j) => ph_pc[SessionOrder[j]] = "init"

\* C11: a phone session whose device_id was taken by a newly admitted phone
\* leaves its main loop (cleanup, exit) on the closure of its outbound channel,
\* with no frame, close or heartbeat timeout of its own peer.
C11_EvictedSessionLeaves ==
    \A s \in Sessions : Evicted(s) ~> ph_pc[s] \in {"unreg", "unreg_early", "done"}

\* C12: the session admitted last for a device_id stays registered for as long
\* as it is served, also after the session it evicted has run its cleanup:
\* phones[d] holds its sender, is_phone_connected(d) is true and send_to_phone(d)
\* puts the message on its channel.
C12_SecondStaysLive ==
    \A s \in Sessions :
        (Live(s) /\ LatestAdmitted(s)) =>
            /\ is_phone_connected(ph_dev[s])
            /\ phones[ph_dev[s]] = s
            /\ send_to_phone(ph_dev[s], NoCommand).sent
            /\ send_to_phone(ph_dev[s], NoCommand).chan[s] = Append(chan[s], NoCommand)

\* ---------------------------------------------------- push events (C13, C20)

\* No GET /events request later in the order of arrival has reached register_sse.
SseLatest(k) ==
    \A i, j \in 1 .. Len(SseOrder) :
        (SseOrder[i] = k /\ i < j) => sse_pc[SseOrder[j]] \in {"new", "admitted"}

\* C13: the GET /events request that registered last for a device_id is the
\* registered SSE client for as long as it streams, also after the handler it
\* displaced has finished its cleanup: send_sse_event(d) queues to its channel.
C13_NewSubscriberStaysRegistered ==
    \A k \in SseSessions :
        (sse_pc[k] = "streaming" /\ SseLatest(k)) =>
            /\ sse_dev[k] \in DOMAIN sse_clients
            /\ sse_clients[sse_dev[k]] = k
            /\ Len(sse_chan[k]) < SseChannelCapacity =>
                  send_sse_event(sse_dev[k], SseEvent(sse_dev[k])).chan[k]
                     = Append(sse_chan[k], SseEvent(sse_dev[k]))

\* C20 as claimed: an authorised POST /notify answers 200 and queues the event
\* whenever an SSE client is registered for the device, and 404 only when none is.
C20_NotFoundOnlyWhenUnregistered ==
    notify.status \in {200, 404} =>
        /\ notify.registered => (notify.status = 200 /\ notify.queued)
        /\ notify.status = 404 => ~notify.registered

\* C20: an authorised POST /notify answers 200 and queues the event when an SSE
\* client is registered for the device and its channel holds fewer than 64
\* events; it answers 404 when none is registered or the channel is full.
C20_NotifyAnswer ==
    notify.status \in {200, 404} =>
        /\ notify.status = 200 <=> (notify.registered /\ notify.room)
        /\ notify.status = 200 => notify.queued
        /\ notify.status = 404 => ~notify.queued

\* The request that took the device over has 64 events waiting and the next
\* POST /notify was answered 404, with the client registered.
C20_Witness ==
    /\ notify.status = 404
    /\ notify.registered
    /\ "d1" \in DOMAIN sse_clients
    /\ sse_clients["d1"] = "k2"
    /\ Len(sse_chan["k2"]) = SseChannelCapacity

\* --------------------------------------------- backpressure (C15, C16, C18)

\* C15: send_to_phone never waits for the device to consume: no controller task
\* is ever suspended inside it (a full channel would make it return false).
C15_SendToPhoneNeverWaits == \A c \in Controllers : ct_pc[c] # "sending"

C18_EveryCommandAccepted ==
    (~ENABLED NextStall) => \A c \in Controllers : ct_pc[c] \notin {"enqueued", "sending"}

\* ------------------------------------------------------------ fan-out (C14)

\* The controllers whose receivers exist before and after a step.
Subscribed == DOMAIN response_rx \cap DOMAIN response_rx'

\* A step that hands some subscribed controller a response to read.
Emitted(r) ==
    \E c \in Subscribed :
        /\ Len(response_rx'[c]) > Len(response_rx[c])
        /\ response_rx'[c][Len(response_rx'[c])] = r

\* The responses that wait in some receiver after a step.
Waiting == UNION {{response_rx'[c][i] : i \in 1 .. Len(response_rx'[c])} : c \in DOMAIN response_rx'}

\* C14 as claimed: a response the phone emits is there to read for every
\* controller subscribed at that moment, behind all it has not read yet.
C14_EveryResponseReachesAll ==
    [][\A r \in Waiting :
          Emitted(r) => \A c \in Subscribed : response_rx'[c] = Append(response_rx[c], r)]_vars

\* C14: a response the phone emits for d is there to read for every controller
\* subscribed at that moment, behind what it has not read yet; a controller
\* with 256 responses unread loses the oldest of them. A controller reads its
\* responses oldest first, one at a time, and no step takes a response from
\* two controllers.
C14_FanOut ==
    [][/\ \A r \in Waiting :
             Emitted(r) =>
                 \A c \in Subscribed :
                     /\ Len(response_rx[c]) < ResponseCapacity =>
                            response_rx'[c] = Append(response_rx[c], r)
                     /\ Len(response_rx[c]) >= ResponseCapacity =>
                            /\ Len(response_rx[c]) = ResponseCapacity
                            /\ response_rx'[c] = Append(Tail(response_rx[c]), r)
       /\ \A c \in Subscribed :
             Len(response_rx'[c]) < Len(response_rx[c]) =>
                 /\ response_rx'[c] = Tail(response_rx[c])
                 /\ \A c2 \in Subscribed : c2 # c => response_rx'[c2] = response_rx[c2]]_vars

\* Both controllers were subscribed when the phone emitted its responses; c1
\* has read its own, c2 has two unread.
C14_Witness ==
    /\ DOMAIN response_rx = {"c1", "c2"}
    /\ ct_pc["c1"] = "loop"
    /\ response_rx["c1"] = <<>>
    /\ Len(response_rx["c2"]) = 2

\* --------------------------------------------------------- admission (C17)

\* The connection sent an auth frame before the deadline and the frame passes
\* every check of the gate.
Passed(x) ==
    /\ au_pc[x] # "await"
    /\ au_msg[x].role = RoleOf(x)
    /\ token(au_msg[x]) \notin {"none", ""}
    /\ verify_token(token(au_msg[x]))
    /\ verify_device(device_id(au_msg[x]))
    /\ au_msg[x].ip_allowed
    /\ au_msg[x].version # "none" => check_version_compatible(au_msg[x].version)

\* The connection is in the registry, or its handler has run.
Registered(x) ==
    \/ \E d \in DOMAIN phones : phones[d] = x
    \/ \E d \in DOMAIN controllers : \E i \in 1 .. Len(controllers[d]) : controllers[d][i] = x
    \/ x \in DOMAIN response_rx
    \/ x \in Sessions /\ ph_pc[x] # "init"
    \/ x \in Controllers /\ ct_pc[x] # "connecting"
    \/ x \in Controllers /\ ct_cmd[x].command # NoCommand

GateFailures ==
    {"auth_fail: auth timeout", "auth_fail: missing auth credential", "auth_fail: invalid token",
     "auth_fail: device not allowed", "auth_fail: connection from this IP is not allowed",
     "error: outdated_client"}

\* C17: a connection is registered as phone or controller, and the backend is
\* changed for it, only if it sent an auth frame before the deadline and passed
\* the credential, token, device, IP and version checks; a connection that
\* fails is closed with the failure written to it; before the auth frame only
\* "expected auth message" is written.
C17_AuthGate ==
    /\ \A x \in Conns : Registered(x) => Passed(x) /\ au_pc[x] = "admitted"
    /\ (devices # EmptyMap \/ versions # EmptyMap) => \E x \in Conns : Passed(x) /\ au_pc[x] = "admitted"
    /\ \A x \in Conns :
          au_pc[x] \in {"admitted", "closed"} /\ ~Passed(x) =>
              /\ au_pc[x] = "closed"
              /\ au_out[x] \cap GateFailures # {}
    /\ \A x \in Conns : au_pc[x] = "closed" => ~Passed(x)
    /\ \A x \in Conns :
          au_pc[x] \in {"await", "checking", "admitted"} =>
              au_out[x] \subseteq {"error: expected auth message"}

\* The phone was answered "expected auth message" before its auth frame, passed
\* and is registered for d1; the controller passed and has a command enqueued.
C17_Witness ==
    /\ "error: expected auth message" \in au_out["p1"]
    /\ "d1" \in DOMAIN phones /\ phones["d1"] = "p1"
    /\ Passed("p1") /\ Passed("c1")
    /\ ct_cmd["c1"].command # NoCommand

\* --------------------------------------------------------- heartbeat (C19)

\* C19: a controller session is closed by the heartbeat only if its peer has
\* stopped answering pings, and a session whose peer has stopped answering is
\* closed by the first tick more than 60 s after the last pong, which comes no
\* more than 60 s + 30 s after that pong.
C19_Heartbeat ==
    \A c \in HbSessions :
        /\ hb_end[c] = "heartbeat timeout" => hb_quiet[c]
        /\ (hb_quiet[c] /\ ct_pc[c] # "done") =>
               hb_now <= hb_last_pong[c] + HEARTBEAT_TIMEOUT + HEARTBEAT_INTERVAL

\* ------------------------------------------------------- resume point (C21)

\* C21: the phone handler computes resume_from as the larger of the last_ack
\* the phone declared and the backend's last_ack, writes auth_ok{resume_from}
\* as the first frame of the session, and every command it then replays has an
\* id above that resume_from.
C21_ReplayAboveResume ==
    [][\A s \in Sessions :
          /\ (ph_pc[s] = "state_registered" /\ ph_pc'[s] = "resume") =>
                ph_resume'[s] = Max(ph_last_ack[s], last_ack(ph_dev[s]))
          /\ (ph_pc[s] = "resume" /\ ph_pc'[s] = "auth_ok") =>
                ws_tx'[s] = <<AuthOkFrame(ph_resume[s])>>
          /\ ReplayReadStep(s) =>
                \A i \in 1 .. Len(replayed'[s]) : replayed'[s][i].id > ws_tx[s][1].id]_vars

\* ------------------------------------------------------- IP allowlist (C22)

\* The address agrees with the network on its first n bits.
AgreeOnPrefix(net, ip, n) ==
    \A i \in 1 .. n : AddrBits(net)[i] = AddrBits(ip)[i]

\* The list of the example: 10.0.0.0/8 and 192.168.1.5.
ExampleList == <<Cidr(V4(10, 0, 0, 0), 8), Single(V4(192, 168, 1, 5))>>

\* C22: check succeeds exactly when the allowlist has no (parsed) entries, or
\* the address equals a single-IP entry, or it is of the family of a CIDR entry
\* and agrees with its network address on the first `prefix` bits; the list
\* 10.0.0.0/8, 192.168.1.5 admits 10.5.5.5 and 192.168.1.5 and rejects 8.8.8.8.
C22_WhitelistCheck ==
    pure_call.op = "check" =>
        LET entries == from_list(pure_call.args[1])
            ip == pure_call.args[2]
        IN /\ pure_call.ret <=>
                 \/ entries = <<>>
                 \/ /\ ip.fam # "bad"
                    /\ \E i \in 1 .. Len(entries) :
                          \/ ~entries[i].cidr /\ entries[i].addr = ip
                          \/ /\ entries[i].cidr
                             /\ entries[i].addr.fam = ip.fam
                             /\ AgreeOnPrefix(entries[i].addr, ip, entries[i].prefix)
           /\ pure_call.args[1] = ExampleList =>
                 /\ ip \in {V4(10, 5, 5, 5), V4(192, 168, 1, 5)} => pure_call.ret
                 /\ ip = V4(8, 8, 8, 8) => ~pure_call.ret

\* The list of the example has rejected 8.8.8.8.
C22_Witness ==
    /\ pure_call.op = "check"
    /\ pure_call.args = <<ExampleList, V4(8, 8, 8, 8)>>
    /\ ~pure_call.ret

\* ------------------------------------------ what changes the queue (C23)

\* The calls of the backend that only read or that keep the device state.
KeepingCall(d) ==
    \/ ApiRegister(d)
    \/ ApiUnregister(d)
    \/ ApiGetLastAck(d)
    \/ \E a \in AckIds : ApiGetPending(d, a)
    \/ \E id \in AckIds : ApiStoreResponse(d, id)

\* C23: register_connection, unregister_connection, get_last_ack,
\* get_pending_commands and store_response leave pending, last_ack and
\* cmd_counter of every device as they were (so the register_connection of a
\* reconnect finds the queue the disconnect left), and a second
\* register_connection or unregister_connection changes nothing the first did.
C23_QueueKeptByOtherCalls ==
    [][\A d \in Devices :
          /\ KeepingCall(d) =>
                \A e \in Devices : /\ pending(e)' = pending(e)
                                   /\ last_ack(e)' = last_ack(e)
                                   /\ cmd_counter(e)' = cmd_counter(e)
          /\ ApiRegister(d) => register_connection(devices', d) = devices'
          /\ ApiUnregister(d) => unregister_connection(devices', d) = devices']_vars

\* A session ended and the next one registered while commands were pending and
\* acks had been taken.
C23_Witness ==
    /\ call.op = "register_connection"
    /\ call.before # <<>>
    /\ pending(call.dev) = call.before
    /\ last_ack(call.dev) > 0
    /\ responses # EmptyMap

\* ------------------------------------------------ a long queue (C24)

\* C24: enqueue_command returns a Command with the next id and appends it to
\* pending, keeping the earlier entries in order, whatever the length of the
\* queue: at 50 or more pending commands it only logs.
C24_EnqueueAtAnyLength ==
    [][\A d \in Devices, cmd \in CmdNames :
          ApiEnqueueUpTo(d, cmd, MaxQueue) =>
              LET command == [id |-> cmd_counter(d) + 1, cmd |-> cmd]
              IN /\ call'.ret = <<command>>
                 /\ pending(d)' = Append(pending(d), command)
                 /\ cmd_counter(d)' = command.id]_vars

\* A command was enqueued on a queue of 50 or more and is its last entry.
C24_Witness ==
    /\ call.op = "enqueue_command"
    /\ Len(call.before) >= MaxPendingWarn
    /\ pending(call.dev) = call.before \o call.ret

\* --------------------------------------------------- usage limit (C25)

\* C25: a command frame for which check_and_record returns LimitReached has one
\* error frame written to its controller and nothing else: no id is taken,
\* pending and what was sent to the phone are as before, no cmd_accepted is
\* written, and the controller is still in its loop.
C25_LimitReachedOnlyErrors ==
    [][\A c \in TextControllers, f \in CtlFrames :
          (parse_controller_message(f) = "Ok" /\ CtlText(c, f, "LimitReached")) =>
              /\ refused'.conn = c
              /\ refused'.wrote = <<ErrorFrame("Daily usage limit reached")>>
              /\ ct_pc'[c] = "loop"
              /\ UNCHANGED <<devices, assigned, phones, chan, placed, ws_tx, ct_cmd>>]_vars

\* The limit was reached for a controller whose target is connected and has a
\* command pending.
C25_Witness ==
    /\ refused.why = "limit reached"
    /\ ct_pc[refused.conn] = "loop"
    /\ "d1" \in DOMAIN phones
    /\ pending("d1") # <<>>

\* ------------------------------------------------- unparsable frames (C26)

\* C26: a text frame that does not parse leaves the session that read it in
\* its loop and leaves pending, last_ack, cmd_counter and the registry as they
\* were, on the phone side and on the controller side (where a frame parses
\* when it is a JSON object with a string "cmd").
C26_UnparsableDropped ==
    [][/\ \A s \in TextSessions, f \in PhoneFrames :
             (parse_phone_message(f) = "Err" /\ PhoneText(s, f)) =>
                 /\ ph_pc'[s] = "running"
                 /\ UNCHANGED <<devices, phones, controllers, sse_clients, chan>>
       /\ \A c \in TextControllers, f \in CtlFrames, usage \in UsageChecks :
             (~(f.json /\ f.cmd = "str") /\ CtlText(c, f, usage)) =>
                 /\ ct_pc'[c] = "loop"
                 /\ UNCHANGED <<devices, phones, controllers, sse_clients, chan>>]_vars

\* A frame that did not parse was read while a command was pending for a
\* connected phone.
C26_Witness ==
    /\ refused.why = "parse error"
    /\ "d1" \in DOMAIN phones
    /\ pending("d1") # <<>>
    /\ \/ refused.conn \in Sessions /\ ph_pc[refused.conn] = "running"
       \/ refused.conn \in Controllers /\ ct_pc[refused.conn] = "loop"

\* ----------------------------------------------------- version cache (C27)

\* The connection was admitted and its handler has not returned.
Serving(x) ==
    /\ au_pc[x] = "admitted"
    /\ x \in Sessions => ph_pc[x] # "done"
    /\ x \in Controllers => ct_pc[x] # "done"

\* C27: an entry of versions is that of a connection being served which
\* reported it at its admission, and a connection being served that reported a
\* version finds it cached under its device_id: no other connection's exit
\* has cleared it and no other connection's admission has replaced it.
C27_VersionWhileServed ==
    /\ \A d \in DOMAIN versions :
          \E x \in Conns : /\ Serving(x)
                           /\ device_id(au_msg[x]) = d
                           /\ au_msg[x].version = versions[d]
    /\ \A x \in Conns :
          (Serving(x) /\ au_msg[x].version # "none") =>
              /\ device_id(au_msg[x]) \in DOMAIN versions
              /\ versions[device_id(au_msg[x])] = au_msg[x].version

\* ---------------------------------------------- controller senders (C28)

\* The controller sessions for a device whose handler has registered and has
\* not returned.
LiveControllers(d) == {c \in Controllers : Target(c) = d /\ ct_pc[c] \notin {"connecting", "done"}}

\* C28: controllers[d] holds as many senders as there are live controller
\* sessions for d, and no key for a device without one: the sender of a session
\* that has ended is removed.
C28_SendersOfLiveSessions ==
    \A d \in Devices :
        IF LiveControllers(d) = {}
        THEN d \notin DOMAIN controllers
        ELSE /\ d \in DOMAIN controllers
             /\ Len(controllers[d]) = Cardinality(LiveControllers(d))

\* ------------------------------------------------- Redis pending (C29)

\* C29: with no call of State in progress, the pending key holds the commands
\* that were enqueued with an id above the last ack and no other: no write of
\* an enqueue_command or process_ack was lost to a concurrent one.
C29_NoLostUpdate ==
    (\A t \in RedisTasks : rd_task[t].pc = "idle") =>
        Ids(from_pending(redis.pending)) =
            {id \in RedisIssued : redis.last_ack = RedisNil \/ id > redis.last_ack[1]}

\* C30: a controller registered for a device before a phone session of the
\* device starts has written that session's phone_status connected:true to its
\* socket before it writes a response the session emitted: no response of the
\* target device is written while a connected:true event is still unread on
\* the controller's event channel.
C30_StatusBeforeResponse ==
    [][\A c \in StatusControllers :
          (/\ c \in DOMAIN response_rx
           /\ response_rx[c] # <<>>
           /\ Head(response_rx[c]).dev = Target(c)
           /\ CtlResponse(c, TRUE))
          => \A i \in 1 .. Len(event_rx[c]) : ~event_rx[c][i].connected]_vars

\* C31: register_phone and unregister_phone complete without waiting for a
\* controller to consume: a phone session that has reached register_phone or
\* unregister_phone, with the phones map free to write, can finish the call
\* whatever the controllers of the device have left unread.
C31_RegisterNeverWaits ==
    \A s \in StatusSessions :
        (ph_pc[s] \in {"init", "unreg", "unreg_early"} /\ PhonesWritable) => EventRoom(ph_dev[s])

\* C32: a controller session is registered against, and enqueues commands for,
\* only a target that passed verify_device: with the allowlist non-empty, no
\* sender is registered and no command is queued for a device outside it.
C32_TargetVerified ==
    /\ \A d \in DOMAIN controllers : verify_device(d)
    /\ \A d \in DOMAIN devices : devices[d].pending # <<>> => verify_device(d)

\* The status frames written to a controller, and the last of them.
StatusFrames(c) ==
    SelectSeq(ct_sock[c].out, LAMBDA f : f.type \in {"auth_ok", "phone_status"})
LastStatus(c) == StatusFrames(c)[Len(StatusFrames(c))].connected

\* Nothing is left for a handler to do: the controller is in its loop with no
\* event unread and no phone session is between two steps of its handler.
Quiescent(c) ==
    /\ c \in DOMAIN ct_sock
    /\ ct_pc[c] = "loop"
    /\ event_rx[c] = <<>>
    /\ \A s \in Sessions : ph_pc[s] \in {"init", "running", "done"}

\* C33: once the system is quiescent, the last status a controller was sent
\* (phone_connected of its auth_ok, then the phone_status events) is
\* is_phone_connected of its target.
C33_StatusEventuallyRight ==
    \A c \in StatusControllers :
        Quiescent(c) => LastStatus(c) = is_phone_connected(Target(c))

\* C34: every version stored in the registry passes check_version_compatible,
\* so the condition of the controller-side rejection (outdated_remote,
\* both_outdated) holds for no controller.
C34_StoredVersionsCompatible ==
    /\ \A d \in DOMAIN versions : check_version_compatible(versions[d])
    /\ \A c \in Controllers : au_pc[c] = "admitted" => ~cross_version_rejects(c)

\* The controller is about to read the status of its target while the phone is
\* connected and has a version stored.
C34_Witness ==
    /\ au_pc["c1"] = "admitted"
    /\ ct_pc["c1"] = "connecting"
    /\ is_phone_connected(Target("c1"))
    /\ Target("c1") \in DOMAIN versions

\* C35: a non-empty allowlist never admits an address that matches none of its
\* entries: whenever check returns Ok for a list that has an entry, one of the
\* entries parses and contains the address.
C35_NoAllowAllByDroppedEntries ==
    (pure_call.op = "check" /\ pure_call.args[1] # <<>> /\ pure_call.ret)
    => \E i \in 1 .. Len(pure_call.args[1]) :
          /\ IpEntry_parses(pure_call.args[1][i])
          /\ contains(pure_call.args[1][i], pure_call.args[2])

C37_AcceptedBeforeResponse ==
    \A c \in DOMAIN ct_sock :
        \A j \in 1 .. Len(ct_sock[c].out) :
            ct_sock[c].out[j].type = "response"
            => \E i \in 1 .. j - 1 :
                  ct_sock[c].out[i] = CmdAcceptedFrame(ct_sock[c].out[j].id)

\* The phone's reply was on the bus before the controller had written
\* cmd_accepted.
C37_Witness ==
    /\ "c1" \in DOMAIN ct_sock
    /\ ct_pc["c1"] = "accepting"
    /\ "c1" \in DOMAIN response_rx
    /\ response_rx["c1"] # <<>>
    /\ Head(response_rx["c1"]).id = ct_cmd["c1"].command.id

\* ------------------------------------------------- the SDK's pending map (C38)

\* C38: every response a send_command call returned has the id the worker
\* assigned to the command of that very call.
C38_ResponseOfOwnCommand ==
    \A i \in 1 .. Len(sdk.returned) :
        sdk_ws.owner[sdk.returned[i].id] = sdk.returned[i].call

\* -------------------------------------------------- the SDK's handshake (C39)

\* C39: connect_ws is never left waiting for the auth notification when the
\* recv task has ended and no permit is stored.
C39_ConnectNeverStuck ==
    ~(sdk.connect_ws = "waiting" /\ sdk.recv_task = "ended" /\ ~sdk.permit)

\* ------------------------------------------- Disconnect of the agent (C40)

\* C40: while a Disconnect was handled and the tray and the SSE listener have
\* asked for no connection since, no connection task runs.
C40_DisconnectStays == mac.quiet => mac.connection_task # "running"

====
